---- MODULE Spec2Model ----
(***************************************************************************)
(* Verification model of the access guard, key cache and BB84 threshold    *)
(* logic of src/src/quantum/protocols/qkd_protocol.py.                     *)
(*                                                                         *)
(* Time is a natural-number clock `now` (the value time.time() returns);   *)
(* it never decreases.  Window lengths and caps are scaled down, keeping   *)
(* their order (1 s < 60 s < 600 s < 3600 s), so that every cap and every  *)
(* window boundary is reached within a few steps.                          *)
(***************************************************************************)
EXTENDS Integers, Sequences, FiniteSets, TLC

(***************************************************************************)
(* Generic helpers for Python lists and dicts.                             *)
(***************************************************************************)
\* dict[k] = v (creates the key when absent)
Put(d, k, v) == [x \in (DOMAIN d) \cup {k} |-> IF x = k THEN v ELSE d[x]]

\* del dict[k]
Del(d, k) == [x \in (DOMAIN d) \ {k} |-> d[x]]

\* dict.get(k, dflt)
Get(d, k, dflt) == IF k \in DOMAIN d THEN d[k] ELSE dflt

\* list.remove(x) for a list without duplicates
Remove(s, x) == SelectSeq(s, LAMBDA y : y # x)

Max2(a, b) == IF a >= b THEN a ELSE b
Min2(a, b) == IF a <= b THEN a ELSE b

(***************************************************************************)
(* Bounds of the model.                                                    *)
(***************************************************************************)
\* SecurityRateLimiter: caps (30, 500, 50, 100 in the source, lines 92-95)
user_limit_per_minute == 2
user_limit_per_hour == 3
ip_limit_per_minute == 3
global_limit_per_second == 3
\* SecurityRateLimiter: window lengths (1, 60, 3600 s) and cleanup interval
\* (600 s) in clock ticks
WinSecond == 1
WinMinute == 2
WinHour == 4
cleanup_interval == 3
\* the rate limiter is observed for this many calls and clock ticks
MaxCalls == 4
MaxTimeRL == 5

\* SecuritySessionManager: max_sessions_per_user (5 in the source, line 166)
\* and session_timeout (3600 s, line 165) in clock ticks
max_sessions_per_user == 1
session_timeout == 1
\* session ids handed out, clock ticks, and the caps on the per-session
\* counters and on the security-event list
MaxSessionIds == max_sessions_per_user + 1
MaxTimeSM == session_timeout + 1
MaxKeyCount == 1
MaxEvents == 1

\* HighPerformanceKeyCache: max_cache_size (2000), ttl_seconds (7200) and
\* cleanup_interval (300 s) in clock ticks (lines 468 and 487)
max_cache_size == 1
ttl_seconds == 2
kc_cleanup_interval == 1
\* keys put into the cache
MaxKeys == 3
MaxTimeKC == ttl_seconds + 1
\* enough queues to exceed 1.2 x max_cache_size
NumQueues == (max_cache_size * 12) \div 10 + 1

\* BB84Protocol thresholds and error rates are fixed-point numbers, in units
\* of 1/10000: 0.12 is 1200
SimBaseQber == 1200
SimMinQber == 800
SimMaxQber == 1500
RealBaseQber == 800
RealMinQber == 500
RealMaxQber == 1100
\* adapt_threshold: the literals 0.35 and 0.50
StringentFloor == 3500
LenientCeiling == 5000
\* _get_dynamic_threshold: history cap, minimum history, recent window
HistoryCap == 100
MinHistory == 5
RecentWindow == 10
\* _update_threat_level: event counts at which the level rises
ThreatLow == 1
ThreatMedium == 5
ThreatHigh == 15
ThreatCritical == 50
\* error rates measured on the channel: below every minimum threshold,
\* within reach of error correction, and above every maximum threshold
LowError == 300
MidError == 1400
HighError == 2000
ErrorRates == {LowError, MidError, HighError}
\* error rates estimated after error correction
CorrectedRates == {LowError, HighError}
\* numbers of recent security events: threat levels 0, 2 and 3
EventCounts == {0, ThreatMedium, ThreatHigh}
\* measurements recorded in error_rate_history: as many as
\* _get_dynamic_threshold needs to leave its warm-up
MaxHistory == MinHistory
\* threshold tightenings by _select_secure_protocol
MaxTighten == 1

\* QKDManager: the validation limits, and the intervals in ticks
MaxIdLen == 64
MinKeyLength == 16
MaxKeyLength == 8192
MinKeyBytes == 16
HighThreatKeyLength == 512
SimMaxErrorRate == 1500
RealMaxErrorRate == 800
GoodKeyLength == 256
security_check_interval == 1
threat_window == 2
event_retention == 3
\* the pure functions: the unit of rates, the digest size of SHA-256, the
\* default confidence 0.8 and the cap 0.9 of estimate_error_rate
Scale == 10000
DigestSize == 32
DefaultConfidence == 8000
MaxConfidenceFactor == 9000
\* the ultra-fast path: the cap on the qubits, the fewest bits the key
\* expansion accepts, and noise_probability in simulation and real mode
MaxQubits == 2048
MinExpansionBits == 16
SimNoise == 100
RealNoise == 500
\* QuantumEncryption: the AES block size
BlockSize == 16
\* the longest bit lists the functions are called with
MaxBits == 3
\* the clock while threads run check_rate_limit
MaxTimeCC == WinSecond
\* calls per behaviour
MaxBlocked == 3
\* QuantumKey constructor calls observed, and the clock in milliseconds
MaxKeyCalls == 3
MaxTimeID == 1
\* a session manager whose max_sessions_per_user leaves an oldest and a
\* newer session at the cap
CapSC == 2
MaxSessionIdsSC == CapSC + 2
\* the cache that is driven over its capacity: queue ids, keys put, keys got
NumQueuesEV == 5
MaxKeysEV == 7
MaxGetsEV == 2
MaxHistoryMG == 3 * MaxBlocked
QkdIds == {1, 2}
MaxTimeMG == security_check_interval + 1

Users == {"u1", "u2"}
IPs == {"ip1", "ip2"}

\* key cache: a queue is named by its (alice_id, bob_id, key_length) triple;
\* a key object is [id, put_at]: keys are numbered in the order they are put,
\* and each carries the clock value of its put as a history annotation
CacheKeys == 1..NumQueues
NoKey == [id |-> 0, put_at |-> 0]

\* session manager: callers that create sessions, their peers, and the user
\* ids presented to validate_session
Creators == {"u1", "u2"}
Peers == {"u3"}
AllUsers == {"u1", "u2", "u3"}
SessionIds == 1..MaxSessionIds
KeyLengths == {256}

VARIABLES
    now,              \* time.time()
    user_requests,    \* SecurityRateLimiter.user_requests: user -> timestamps
    ip_requests,      \* SecurityRateLimiter.ip_requests: ip -> timestamps
    global_requests,  \* SecurityRateLimiter.global_requests
    rl_last_cleanup,  \* SecurityRateLimiter.last_cleanup
    rl_log,           \* history: every check_rate_limit call and its result
    active_sessions,  \* SecuritySessionManager.active_sessions: id -> session_info
    user_sessions,    \* SecuritySessionManager.user_sessions: user -> list of ids
    sm_next_id,       \* the next fresh session id (secrets.token_hex never repeats)
    sm_ret,           \* the last session-manager call: operation, result, exception
    key_cache,        \* HighPerformanceKeyCache.key_cache: queue -> list of keys
    kc_order,         \* insertion order of the keys of the dict key_cache
    creation_times,   \* HighPerformanceKeyCache.creation_times
    access_times,     \* HighPerformanceKeyCache.access_times
    fast_lookup_mode, \* HighPerformanceKeyCache.fast_lookup_mode
    kc_last_cleanup,  \* HighPerformanceKeyCache.last_cleanup
    kc_next_key,      \* the next key object to be put
    kc_ret,           \* the last cache call: operation, key returned, path, exception
    kc_dispensed,     \* history: the ids of the keys get_cached_key returned, in order
    simulation_mode,  \* BB84Protocol.simulation_mode
    QISKIT_AVAILABLE, \* module flag QISKIT_AVAILABLE
    CIRQ_AVAILABLE,   \* module flag CIRQ_AVAILABLE
    current_backend,  \* BB84Protocol.current_backend
    qber_threshold,   \* BB84Protocol.qber_threshold
    security_boost_mode, \* BB84Protocol.security_boost_mode
    success_history,  \* BB84Protocol.success_history
    error_rate_history, \* BB84Protocol.error_rate_history
    threat_level,     \* QKDManager.threat_level
    bb_tightened,     \* how often _select_secure_protocol tightened the threshold
    bb_ret,           \* the last BB84 call: operation, exception, key, thresholds compared
    qkd_sessions,     \* QKDManager.active_sessions: session id -> QKDSession
    generated_keys,   \* QKDManager.generated_keys: key id -> QuantumKey
    security_events,  \* QKDManager.security_events
    last_security_check, \* QKDManager.last_security_check
    performance_metrics, \* QKDManager.performance_metrics (the three counters)
    mg_next_id,       \* the next fresh uuid4 of a QKD session and of its key
    mg_ret,           \* the last QKDManager call: operation, exception, result
    fn_in,            \* the arguments of a call of one of the pure functions
    fn_ret,           \* what that call returned
    cc_pc,            \* concurrent check_rate_limit calls: the statement each is at
    cc_time,          \* concurrent check_rate_limit calls: each call's current_time
    kq_pc,            \* concurrent cache calls: the statement each is at, its key
    kq_put,           \* history: the ids of the keys whose cache_key call returned
    qk_calls,         \* history: the QuantumKey(...) calls of the generation paths
    enc_ret,          \* the last QuantumEncryption call: operation, exception, result
    ev_access,        \* history: the queues get_cached_key returned a key of, in order
    ev_evicted,       \* history: the queues the last cache_key call's cleanup deleted
    gf_log            \* history: the get_key_fast calls, with the key each returned

rlVars == <<user_requests, ip_requests, global_requests, rl_last_cleanup, rl_log>>

smVars == <<active_sessions, user_sessions, sm_next_id, sm_ret>>

kcVars == <<key_cache, kc_order, creation_times, access_times, fast_lookup_mode,
            kc_last_cleanup, kc_next_key, kc_ret, kc_dispensed>>

bbVars == <<simulation_mode, QISKIT_AVAILABLE, CIRQ_AVAILABLE, current_backend,
            qber_threshold, security_boost_mode, success_history,
            error_rate_history, threat_level, bb_tightened, bb_ret>>

mgVars == <<qkd_sessions, generated_keys, security_events, last_security_check,
            performance_metrics, mg_next_id, mg_ret>>

fnVars == <<fn_in, fn_ret>>

ccVars == <<cc_pc, cc_time>>

kqVars == <<kq_pc, kq_put>>

idVars == <<qk_calls>>

encVars == <<enc_ret>>

evVars == <<ev_access, ev_evicted>>

gfVars == <<gf_log>>

xtVars == <<kqVars, idVars, encVars, evVars, gfVars>>

vars == <<now, rlVars, smVars, kcVars, bbVars, mgVars, fnVars, ccVars, xtVars>>

(***************************************************************************)
(* SecurityRateLimiter                                                     *)
(***************************************************************************)
\* [t for t in lst if current_time - t < window]
RecentShort(lst, t, window) == SelectSeq(lst, LAMBDA x : t - x < window - 1)
Recent(lst, t, window) == SelectSeq(lst, LAMBDA x : t - x < window)

\* len(window) >= limit
AtCapOff(n, limit) == n > limit
AtCap(n, limit) == n >= limit

\* drop the keys whose list is empty after pruning to `window`
PruneDict(d, t, window) ==
    LET keep == {k \in DOMAIN d : Len(Recent(d[k], t, window)) > 0}
    IN  [k \in keep |-> Recent(d[k], t, window)]

\* _cleanup_old_entries: the three collections after the cleanup
CleanupOldEntries(ur, ir, gr, t) ==
    [ur |-> PruneDict(ur, t, WinHour),
     ir |-> PruneDict(ir, t, WinHour),
     gr |-> Recent(gr, t, WinMinute)]

InitRL ==
    /\ user_requests = <<>>
    /\ ip_requests = <<>>
    /\ global_requests = <<>>
    /\ rl_last_cleanup = 0
    /\ rl_log = <<>>

\* check_rate_limit(user_id, ip_address) at time `now`
check_rate_limit(u, ip) ==
    LET due == now - rl_last_cleanup > cleanup_interval
        c   == IF due THEN CleanupOldEntries(user_requests, ip_requests, global_requests, now)
                      ELSE [ur |-> user_requests, ir |-> ip_requests, gr |-> global_requests]
        lc  == IF due THEN now ELSE rl_last_cleanup
        gr1 == Recent(c.gr, now, WinSecond)
        ir1 == Put(c.ir, ip, Recent(Get(c.ir, ip, <<>>), now, WinMinute))
        ur1 == Put(c.ur, u, Get(c.ur, u, <<>>))
        nMin  == Len(Recent(ur1[u], now, WinMinute))
        nHour == Len(Recent(ur1[u], now, WinHour))
        Log(ok, why) == Append(rl_log, [t |-> now, user |-> u, ip |-> ip, ok |-> ok, why |-> why])
    IN
    /\ Len(rl_log) < MaxCalls
    /\ rl_last_cleanup' = lc
    /\ now' = now
    /\ IF AtCap(Len(gr1), global_limit_per_second) THEN
            /\ global_requests' = gr1
            /\ ip_requests' = c.ir
            /\ user_requests' = c.ur
            /\ rl_log' = Log(FALSE, "global")
       ELSE IF AtCap(Len(ir1[ip]), ip_limit_per_minute) THEN
            /\ global_requests' = gr1
            /\ ip_requests' = ir1
            /\ user_requests' = c.ur
            /\ rl_log' = Log(FALSE, "ip")
       ELSE IF AtCap(nMin, user_limit_per_minute) THEN
            /\ global_requests' = gr1
            /\ ip_requests' = ir1
            /\ user_requests' = ur1
            /\ rl_log' = Log(FALSE, "user_minute")
       ELSE IF AtCap(nHour, user_limit_per_hour) THEN
            /\ global_requests' = gr1
            /\ ip_requests' = ir1
            /\ user_requests' = ur1
            /\ rl_log' = Log(FALSE, "user_hour")
       ELSE
            /\ global_requests' = Append(gr1, now)
            /\ ip_requests' = Put(ir1, ip, Append(ir1[ip], now))
            /\ user_requests' = Put(ur1, u, Append(ur1[u], now))
            /\ rl_log' = Log(TRUE, "ok")

CheckRateLimit ==
    /\ \E u \in Users, ip \in IPs : check_rate_limit(u, ip)
    /\ UNCHANGED <<smVars, kcVars, bbVars, mgVars, fnVars, ccVars, xtVars>>

\* the clock advances between two calls
TickRL ==
    /\ now < MaxTimeRL
    /\ now' = now + 1
    /\ UNCHANGED <<rlVars, smVars, kcVars, bbVars, mgVars, fnVars, ccVars, xtVars>>

(***************************************************************************)
(* SecuritySessionManager                                                  *)
(* session_info keeps the fields the operations read or write; protocol,   *)
(* created_at, ip_address and the timestamp of a security event are stored *)
(* once and never read, and are left out.  A list user_sessions[u] is in   *)
(* creation order (ids are appended).                                      *)
(***************************************************************************)
\* current_time - session_info['last_activity'] > self.session_timeout
Expired(info, t) == t - info.last_activity > session_timeout

\* session_id in self.active_sessions
Known(sid) == sid \in DOMAIN active_sessions

\* not (alice_id != user_id and bob_id != user_id)
IsOwnerAny(info, user) == TRUE
IsOwner(info, user) == info.alice_id = user \/ info.bob_id = user

\* len(self.user_sessions[alice_id]) >= self.max_sessions_per_user
SessionsAtCapOff(lst) == Len(lst) > max_sessions_per_user
SessionsAtCap(lst) == Len(lst) >= max_sessions_per_user

\* a _remove_session that deletes from active_sessions only
RemoveSessionsActiveOnly(as, us, ids) ==
    [as |-> [x \in (DOMAIN as) \ ids |-> as[x]], us |-> us]

\* _remove_session for every id of `ids`: both indexes afterwards
RemoveSessions(as, us, ids) ==
    LET gone == ids \cap DOMAIN as
    IN  [as |-> [x \in (DOMAIN as) \ gone |-> as[x]],
         us |-> [u \in DOMAIN us |->
                    SelectSeq(us[u], LAMBDA x : ~(x \in gone /\ as[x].alice_id = u))]]

\* totals over the stored sessions, used to cap the counters of the model
RECURSIVE SumF(_, _)
SumF(f, S) ==
    IF S = {} THEN 0
    ELSE LET x == CHOOSE y \in S : TRUE
         IN  f[x] + SumF(f, S \ {x})

TotalEvents(as) == SumF([x \in DOMAIN as |-> Len(as[x].security_events)], DOMAIN as)
TotalKeyCount(as) == SumF([x \in DOMAIN as |-> as[x].key_count], DOMAIN as)

\* the ids _cleanup_expired_sessions collects
ExpiredIds(as, t) == {x \in DOMAIN as : Expired(as[x], t)}

Ret(op, result, exc) == [op |-> op, result |-> result, exc |-> exc]

InitSM ==
    /\ active_sessions = <<>>
    /\ user_sessions = <<>>
    /\ sm_next_id = 1
    /\ sm_ret = Ret("none", FALSE, "none")

\* self.user_sessions[alice_id].pop(0) takes the first id of the list
NewestSession(lst) == lst[Len(lst)]
OldestSession(lst) == Head(lst)

\* _cleanup_expired_sessions(current_time): both indexes afterwards
CleanedSessions ==
    RemoveSessions(active_sessions, user_sessions, ExpiredIds(active_sessions, now))

\* create_session(alice_id, bob_id, protocol, ip_address), where full is the
\* outcome of the max_sessions_per_user test on the caller's list after the
\* cleanup: the id it returns and both indexes afterwards
create_session_with(alice, bob, full) ==
    LET c    == CleanedSessions
        oldest == OldestSession(c.us[alice])
        us1  == IF full
                    THEN Put(c.us, alice, SelectSeq(c.us[alice], LAMBDA sid0 : sid0 # oldest))
                    ELSE c.us
        as1  == IF full /\ oldest \in DOMAIN c.as THEN Del(c.as, oldest) ELSE c.as
        sid  == sm_next_id
        info == [alice_id |-> alice, bob_id |-> bob,
                 last_activity |-> now, key_count |-> 0, total_data |-> 0,
                 security_events |-> <<>>]
    IN  [sid |-> sid,
         as |-> Put(as1, sid, info),
         us |-> Put(us1, alice, Append(Get(us1, alice, <<>>), sid))]

\* create_session with max_sessions_per_user as __init__ sets it
create_session_result(alice, bob) ==
    create_session_with(alice, bob,
                        /\ alice \in DOMAIN CleanedSessions.us
                        /\ SessionsAtCap(CleanedSessions.us[alice]))

\* create_session(alice_id, bob_id, protocol, ip_address)
create_session(alice, bob) ==
    LET r == create_session_result(alice, bob)
    IN
    /\ sm_next_id <= MaxSessionIds
    /\ active_sessions' = r.as
    /\ user_sessions' = r.us
    /\ sm_next_id' = sm_next_id + 1
    /\ sm_ret' = Ret("create", TRUE, "none")
    /\ now' = now

\* validate_session lines 225-231: the ownership mismatch appends the
\* event to the session and writes nothing else
unauthorized_access_refresh(info, user) ==
    [info EXCEPT !.security_events =
                     Append(@, [type |-> "unauthorized_access", user_id |-> user]),
                 !.last_activity = now]
unauthorized_access(info, user) ==
    [info EXCEPT !.security_events =
                     Append(@, [type |-> "unauthorized_access", user_id |-> user])]

\* validate_session(session_id, user_id): what it returns or raises, both
\* indexes afterwards, and whether it logged an unauthorized access
validate_session_result(sid, user) ==
    IF ~Known(sid) THEN
        [result |-> FALSE, exc |-> "none", logged |-> FALSE,
         as |-> active_sessions, us |-> user_sessions]
    ELSE IF sid \notin DOMAIN active_sessions THEN
        \* self.active_sessions[session_id] on a missing key
        [result |-> FALSE, exc |-> "KeyError", logged |-> FALSE,
         as |-> active_sessions, us |-> user_sessions]
    ELSE IF Expired(active_sessions[sid], now) THEN
        LET c == RemoveSessions(active_sessions, user_sessions, {sid})
        IN  [result |-> FALSE, exc |-> "none", logged |-> FALSE,
             as |-> c.as, us |-> c.us]
    ELSE IF ~IsOwner(active_sessions[sid], user) THEN
        [result |-> FALSE, exc |-> "none", logged |-> TRUE,
         as |-> [active_sessions EXCEPT ![sid] = unauthorized_access(@, user)],
         us |-> user_sessions]
    ELSE
        [result |-> TRUE, exc |-> "none", logged |-> FALSE,
         as |-> [active_sessions EXCEPT ![sid].last_activity = now],
         us |-> user_sessions]

\* validate_session(session_id, user_id)
validate_session(sid, user) ==
    LET r == validate_session_result(sid, user)
    IN
    /\ now' = now
    /\ UNCHANGED sm_next_id
    /\ r.logged => TotalEvents(active_sessions) < MaxEvents
    /\ active_sessions' = r.as
    /\ user_sessions' = r.us
    /\ sm_ret' = Ret("validate", r.result, r.exc)

\* record_key_generation(session_id, key_length) on the index `as`
record_key_generation_result(as, sid, key_length) ==
    IF sid \in DOMAIN as
    THEN [as EXCEPT ![sid].key_count = @ + 1,
                    ![sid].total_data = @ + key_length,
                    ![sid].last_activity = now]
    ELSE as

\* record_key_generation(session_id, key_length)
record_key_generation(sid, key_length) ==
    /\ now' = now
    /\ UNCHANGED <<user_sessions, sm_next_id>>
    /\ sm_ret' = Ret("record", TRUE, "none")
    /\ sid \in DOMAIN active_sessions => TotalKeyCount(active_sessions) < MaxKeyCount
    /\ active_sessions' = record_key_generation_result(active_sessions, sid, key_length)

CreateSession ==
    /\ \E a \in Creators, b \in Peers : create_session(a, b)
    /\ UNCHANGED <<rlVars, kcVars, bbVars, mgVars, fnVars, ccVars, xtVars>>

ValidateSession ==
    /\ \E sid \in SessionIds, u \in AllUsers : validate_session(sid, u)
    /\ UNCHANGED <<rlVars, kcVars, bbVars, mgVars, fnVars, ccVars, xtVars>>

RecordKeyGeneration ==
    /\ \E sid \in SessionIds, k \in KeyLengths : record_key_generation(sid, k)
    /\ UNCHANGED <<rlVars, kcVars, bbVars, mgVars, fnVars, ccVars, xtVars>>

TickSM ==
    /\ now < MaxTimeSM
    /\ now' = now + 1
    /\ UNCHANGED <<rlVars, smVars, kcVars, bbVars, mgVars, fnVars, ccVars, xtVars>>

(***************************************************************************)
(* HighPerformanceKeyCache                                                 *)
(* The statistics (cache_hits, cache_misses, hit_streak, usage_patterns,   *)
(* background_generations) never influence which key is stored or          *)
(* returned and are left out.                                              *)
(***************************************************************************)
\* the literal 0 of creation_times.get(cache_key, 0) and of
\* access_times.get(k, 0) is the Unix epoch: further in the past than any
\* ttl, and earlier than every clock value
EpochZero == 0 - (ttl_seconds + MaxTimeKC + 1)

\* list.pop(0): the list that is left
PopFrontKeep(lst) == lst
PopFront(lst) == Tail(lst)

\* list.append(key) of cache_key (line 544)
PushFront(lst, key) == <<key>> \o lst
PushBack(lst, key) == Append(lst, key)

\* cache_key lines 539-541: creation_times after a put into queue q
StampCreationAlways(ct, q, isNew, t) == Put(ct, q, t)
StampCreation(ct, q, isNew, t) == IF isNew THEN Put(ct, q, t) ELSE ct

\* current_time - creation_time < self.ttl_seconds
Fresh(ct, q, t) == t - Get(ct, q, EpochZero) < ttl_seconds

\* the pop of get_cached_key (lines 497-499 and 514-516): the cache and the
\* dict order after the head of queue q is taken, an emptied queue deleted
PopQueue(kc, ord, q) ==
    LET rest == PopFront(kc[q])
    IN  IF rest = <<>> THEN [kc |-> Del(kc, q), ord |-> Remove(ord, q)]
                       ELSE [kc |-> Put(kc, q, rest), ord |-> ord]

\* _fast_cleanup: the queues whose creation time is older than the ttl
ExpiredQueues(ct, t) == {q \in DOMAIN ct : t - ct[q] > ttl_seconds}

\* sorted(..., key=access time): a stable sort of the dict order
RECURSIVE SortByAccess(_, _)
SortByAccess(ord, at) ==
    IF ord = <<>> THEN <<>>
    ELSE LET least == CHOOSE i \in 1..Len(ord) :
                        /\ \A j \in 1..Len(ord) :
                              Get(at, ord[i], EpochZero) <= Get(at, ord[j], EpochZero)
                        /\ \A j \in 1..(i - 1) :
                              Get(at, ord[j], EpochZero) > Get(at, ord[i], EpochZero)
         IN  <<ord[least]>> \o SortByAccess(Remove(ord, ord[least]), at)

\* _emergency_cleanup (lines 628-660): the bottom fifth of the queues is
\* deleted; the statements after the loop then fail: with no queue deleted
\* the loop variable cache_key is unbound (UnboundLocalError), otherwise an
\* empty queue is re-created for the last deleted one and the undefined
\* name `key` raises NameError
EmergencyCleanup(kc, ord, ct, at) ==
    LET sorted == SortByAccess(ord, at)
        remove_count == Len(sorted) \div 5
        gone == {sorted[i] : i \in 1..remove_count}
        kept == [q \in (DOMAIN kc) \ gone |-> kc[q]]
        ordKept == SelectSeq(ord, LAMBDA q : q \notin gone)
    IN  IF remove_count = 0
        THEN [kc |-> kc, ord |-> ord, ct |-> ct, at |-> at, gone |-> {},
              exc |-> "UnboundLocalError"]
        ELSE [kc |-> Put(kept, sorted[remove_count], <<>>),
              ord |-> Append(ordKept, sorted[remove_count]),
              ct |-> [q \in (DOMAIN ct) \ gone |-> ct[q]],
              at |-> [q \in (DOMAIN at) \ gone |-> at[q]],
              gone |-> gone,
              exc |-> "NameError"]

\* len(self.key_cache) > self.max_cache_size * 1.2
OverCapacity(kc) == Cardinality(DOMAIN kc) * 10 > max_cache_size * 12

KcRet(op, key, path, exc) == [op |-> op, key |-> key, path |-> path, exc |-> exc]

\* fast_lookup_mode is a public attribute, True after __init__ (line 488)
InitKC(fast) ==
    /\ key_cache = <<>>
    /\ kc_order = <<>>
    /\ creation_times = <<>>
    /\ access_times = <<>>
    /\ fast_lookup_mode = fast
    /\ kc_last_cleanup = 0
    /\ kc_next_key = 1
    /\ kc_ret = KcRet("none", NoKey, "none", "none")
    /\ kc_dispensed = <<>>

\* get_cached_key(alice_id, bob_id, key_length) on queue q
get_cached_key(q) ==
    LET has == q \in DOMAIN key_cache /\ key_cache[q] # <<>>
    IN
    /\ now' = now
    /\ UNCHANGED <<fast_lookup_mode, kc_next_key>>
    /\ IF fast_lookup_mode /\ has THEN
            LET p == PopQueue(key_cache, kc_order, q)
            IN  /\ key_cache' = p.kc
                /\ kc_order' = p.ord
                /\ kc_ret' = KcRet("get", Head(key_cache[q]), "fast", "none")
                /\ kc_dispensed' = Append(kc_dispensed, Head(key_cache[q]).id)
                /\ UNCHANGED <<creation_times, access_times, kc_last_cleanup>>
       ELSE IF has /\ Fresh(creation_times, q, now) THEN
            LET p == PopQueue(key_cache, kc_order, q)
            IN  /\ key_cache' = p.kc
                /\ kc_order' = p.ord
                /\ kc_ret' = KcRet("get", Head(key_cache[q]), "slow", "none")
                /\ kc_dispensed' = Append(kc_dispensed, Head(key_cache[q]).id)
                /\ UNCHANGED <<creation_times, access_times, kc_last_cleanup>>
       ELSE
            /\ kc_ret' = KcRet("get", NoKey, "miss", "none")
            /\ UNCHANGED kc_dispensed
            /\ IF now - kc_last_cleanup > kc_cleanup_interval THEN
                    LET gone == ExpiredQueues(creation_times, now)
                    IN  /\ key_cache' = [x \in (DOMAIN key_cache) \ gone |-> key_cache[x]]
                        /\ kc_order' = SelectSeq(kc_order, LAMBDA x : x \notin gone)
                        /\ creation_times' = [x \in (DOMAIN creation_times) \ gone |-> creation_times[x]]
                        /\ access_times' = [x \in (DOMAIN access_times) \ gone |-> access_times[x]]
                        /\ kc_last_cleanup' = now
               ELSE UNCHANGED <<key_cache, kc_order, creation_times, access_times,
                                kc_last_cleanup>>

\* cache_key(alice_id, bob_id, key) with key.length naming queue q
cache_put(kc, ord, ct, at, q, key) ==
    LET isNew == q \notin DOMAIN kc
        kc1  == Put(kc, q, PushBack(Get(kc, q, <<>>), key))
        ord1 == IF isNew THEN Append(ord, q) ELSE ord
        ct1  == StampCreation(ct, q, isNew, now)
    IN  IF OverCapacity(kc1) THEN EmergencyCleanup(kc1, ord1, ct1, at)
        ELSE [kc |-> kc1, ord |-> ord1, ct |-> ct1, at |-> at, gone |-> {},
              exc |-> "none"]

\* one call of cache_key on the cache
cache_key(q, key) ==
    LET e == cache_put(key_cache, kc_order, creation_times, access_times, q, key)
    IN
    /\ now' = now
    /\ UNCHANGED <<fast_lookup_mode, kc_last_cleanup, kc_dispensed>>
    /\ kc_next_key' = kc_next_key + 1
    /\ key_cache' = e.kc
    /\ kc_order' = e.ord
    /\ creation_times' = e.ct
    /\ access_times' = e.at
    /\ kc_ret' = KcRet("put", NoKey, "none", e.exc)

GetCachedKey ==
    /\ \E q \in CacheKeys : get_cached_key(q)
    /\ UNCHANGED <<rlVars, smVars, bbVars, mgVars, fnVars, ccVars, xtVars>>

CacheKey ==
    /\ kc_next_key <= MaxKeys
    /\ \E q \in CacheKeys : cache_key(q, [id |-> kc_next_key, put_at |-> now])
    /\ UNCHANGED <<rlVars, smVars, bbVars, mgVars, fnVars, ccVars, xtVars>>

TickKC ==
    /\ now < MaxTimeKC
    /\ now' = now + 1
    /\ UNCHANGED <<rlVars, smVars, kcVars, bbVars, mgVars, fnVars, ccVars, xtVars>>

(***************************************************************************)
(* BB84Protocol: thresholds, adaptive learning, generate_key with backend  *)
(* failover, the ultra-fast path; QKDManager threat level and protocol     *)
(* selection.  The quantum simulation itself is the source of the measured *)
(* error rates, which are inputs here.                                     *)
(***************************************************************************)
Backends == <<"qiskit", "cirq", "pennylane">>

\* x * (num / den) in fixed point
Mul(x, num, den) == (x * num) \div den

base_qber_threshold == IF simulation_mode THEN SimBaseQber ELSE RealBaseQber
min_qber_threshold == IF simulation_mode THEN SimMinQber ELSE RealMinQber
max_qber_threshold == IF simulation_mode THEN SimMaxQber ELSE RealMaxQber

\* seq[-n:]
LastN(seq, n) == SubSeq(seq, Max2(1, Len(seq) - n + 1), Len(seq))

RECURSIVE SumSeq(_)
SumSeq(seq) == IF seq = <<>> THEN 0 ELSE Head(seq) + SumSeq(Tail(seq))

\* np.mean / sum(...) / len(...)
Mean(seq) == SumSeq(seq) \div Len(seq)

Available(b) ==
    \/ b = "qiskit" /\ QISKIT_AVAILABLE
    \/ b = "cirq" /\ CIRQ_AVAILABLE
    \/ b = "pennylane"

\* MultiBackendQuantumManager._preselect_optimal_backend, taken over by
\* _init_quantum_backend
BestBackend(q, c) == IF q THEN "qiskit" ELSE IF c THEN "cirq" ELSE "pennylane"

\* _switch_to_fallback_backend that leaves the backend as it is
FallbackSame(b) == b

\* _switch_to_fallback_backend: the first available backend after the
\* current one in the order qiskit, cirq, pennylane, wrapping around
FallbackBackend(b) ==
    LET i == CHOOSE k \in 1..3 : Backends[k] = b
        next_backends == SubSeq(Backends, i + 1, 3) \o SubSeq(Backends, 1, i - 1)
        ok == SelectSeq(next_backends, Available)
    IN  IF ok = <<>> THEN "pennylane" ELSE Head(ok)

\* the dataclass QuantumKey accepts exactly its six fields as keyword
\* arguments; any other set of keywords raises TypeError
QuantumKeyFields == {"alice_id", "bob_id", "key_data", "key_id", "timestamp", "metadata"}
LegacyKeywords == {"key_id", "raw_key", "final_key", "length", "security_level",
                   "generation_time", "protocol", "error_rate"}
QuantumKeyInit(keywords) == IF keywords = QuantumKeyFields THEN "none" ELSE "TypeError"

\* adapt_threshold: qber_threshold after learning from the last three results
adapt_threshold(sh, eh, q) ==
    IF Len(sh) >= 3 THEN
        LET recent_successes == LastN(sh, 3)
            recent_errors == LastN(eh, 3)
            n == Min2(Len(recent_successes), Len(recent_errors))
            wins == Cardinality({i \in 1..3 : recent_successes[i]})
            q1 == IF wins * 10 >= 8 * 3 THEN Max2(Mul(base_qber_threshold, 9, 10), StringentFloor)
                  ELSE IF wins * 10 >= 5 * 3 THEN base_qber_threshold
                  ELSE Min2(Mul(base_qber_threshold, 12, 10), LenientCeiling)
            idx == SelectSeq([i \in 1..n |-> i], LAMBDA i : recent_successes[i])
            successful_errors == [k \in 1..Len(idx) |-> recent_errors[idx[k]]]
        IN  IF successful_errors # <<>>
            THEN Max2(q1, Mul(Mean(successful_errors), 115, 100))
            ELSE q1
    ELSE q

\* _handle_error_correction(error_rate, threshold, ...): c is the error rate
\* estimated after _advanced_error_correction
handle_error_correction(e, threshold, c, sh, eh, q) ==
    IF e > threshold THEN
        LET sh1 == Append(sh, FALSE)
            eh1 == Append(eh, e)
            q1 == adapt_threshold(sh1, eh1, q)
        IN  IF simulation_mode /\ e < Mul(threshold, 14, 10) /\ c <= threshold
            THEN [ok |-> TRUE, q |-> q1,
                  sh |-> [sh1 EXCEPT ![Len(sh1)] = TRUE],
                  eh |-> [eh1 EXCEPT ![Len(eh1)] = c]]
            ELSE [ok |-> FALSE, q |-> q1, sh |-> sh1, eh |-> eh1]
    ELSE
        LET sh1 == Append(sh, TRUE)
            eh1 == Append(eh, e)
        IN  [ok |-> TRUE, q |-> adapt_threshold(sh1, eh1, q), sh |-> sh1, eh |-> eh1]

\* the backend-specific threshold of _generate_key_attempt (lines 2126-2131)
BackendThreshold(b, q) ==
    IF b = "qiskit" THEN Mul(q, 11, 10)
    ELSE IF b = "cirq" THEN Mul(q, 105, 100)
    ELSE q

\* _generate_key_attempt on backend b, measuring error rate e: the exception
\* it ends with, the threshold it compared against, and the learning state.
\* An attempt that passes error correction builds its key with the legacy
\* keywords of QuantumKey.
generate_key_attempt(b, e, c, sh, eh, q) ==
    LET thr == BackendThreshold(b, q)
        h == handle_error_correction(e, thr, c, sh, eh, q)
    IN  [exc |-> IF ~h.ok THEN "EavesdropDetected" ELSE QuantumKeyInit(LegacyKeywords),
         thr |-> thr, sh |-> h.sh, eh |-> h.eh, q |-> h.q]

\* _generate_key_emergency_mode: ends in the same legacy constructor call
generate_key_emergency_mode == QuantumKeyInit(LegacyKeywords)

\* the last BB84 call; emergency counts the entries into
\* _generate_key_emergency_mode
BbRet(op, exc, key, thresholds, backends) ==
    [op |-> op, exc |-> exc, key |-> key, thresholds |-> thresholds,
     backends |-> backends, emergency |-> 0]

\* generate_key lines 2037-2045: the handler of a failed attempt switches
\* the backend unless the attempt was the last one (attempt = 2), and then
\* enters the emergency mode
EmergencyEntriesTwice(attempt, failed) == IF attempt = 3 /\ failed THEN 2 ELSE 0
EmergencyEntries(attempt, failed) == IF attempt = 3 /\ failed THEN 1 ELSE 0

\* BB84Protocol.__init__ for a simulation_mode and the module flags
InitBB(sim, qiskit, cirq) ==
    /\ simulation_mode = sim
    /\ QISKIT_AVAILABLE = qiskit
    /\ CIRQ_AVAILABLE = cirq
    /\ current_backend = BestBackend(QISKIT_AVAILABLE, CIRQ_AVAILABLE)
    /\ qber_threshold = base_qber_threshold
    /\ security_boost_mode = TRUE
    /\ success_history = <<>>
    /\ error_rate_history = <<>>
    /\ threat_level = 0
    /\ bb_tightened = 0
    /\ bb_ret = BbRet("none", "none", FALSE, <<>>, <<>>)

\* BB84Protocol.generate_key: up to three attempts, a backend switch after
\* each of the first two failures, the emergency mode after the third.
\* e[i] and c[i] are the error rates attempt i measures and re-estimates.
\* The protocol object starts the call with threshold q.
generate_key_from(e, c, q) ==
    LET b1 == current_backend
        b2 == FallbackBackend(b1)
        b3 == FallbackBackend(b2)
        b == <<b1, b2, b3>>
    IN
    \E a1 \in {generate_key_attempt(b1, e[1], c[1], success_history,
                                     error_rate_history, q)} :
    \E a2 \in {generate_key_attempt(b2, e[2], c[2], a1.sh, a1.eh, a1.q)} :
    \E a3 \in {generate_key_attempt(b3, e[3], c[3], a2.sh, a2.eh, a2.q)} :
    LET a == <<a1, a2, a3>>
        last == IF a1.exc = "none" THEN 1 ELSE IF a2.exc = "none" THEN 2 ELSE 3
        exc == IF a[last].exc = "none" THEN "none" ELSE generate_key_emergency_mode
    IN
    /\ current_backend' = b[last]
    /\ success_history' = a[last].sh
    /\ error_rate_history' = a[last].eh
    /\ qber_threshold' = a[last].q
    /\ bb_ret' = [BbRet("generate_key", exc, exc = "none",
                        [i \in 1..last |-> a[i].thr], SubSeq(b, 1, last))
                      EXCEPT !.emergency = EmergencyEntries(last, a[last].exc # "none")]

generate_key(e, c) ==
    /\ generate_key_from(e, c, qber_threshold)
    /\ UNCHANGED <<simulation_mode, QISKIT_AVAILABLE, CIRQ_AVAILABLE,
                   security_boost_mode, threat_level, bb_tightened>>

\* _get_dynamic_threshold: the history after the measurement is recorded
DynamicHistory(eh, e) ==
    LET eh1 == Append(eh, e)
    IN  IF Len(eh1) > HistoryCap THEN LastN(eh1, HistoryCap) ELSE eh1

\* _get_dynamic_threshold: the threshold returned for history eh1
DynamicThreshold(eh1, q) ==
    IF Len(eh1) < MinHistory THEN q
    ELSE LET recent_avg == Mean(LastN(eh1, RecentWindow))
         IN  IF recent_avg < min_qber_threshold
                 THEN Min2(Mul(q, 11, 10), max_qber_threshold)
             ELSE IF recent_avg > q
                 THEN Max2(Mul(q, 9, 10), min_qber_threshold)
             ELSE q

\* _generate_key_ultra_fast with valid ids and key length: sifted1 and
\* sifted2 tell whether enough basis-matched bits were obtained, e1 is the
\* measured error rate, e2 the one of _generate_enhanced_security_key.
\* An accepted measurement on the normal path ends in AttributeError: the
\* metadata of the key reads self.current_backend.value (line 1074) and
\* current_backend is a str.
ultra_fast_outcome(eh, sifted1, e1, sifted2, e2) ==
    LET eh1 == DynamicHistory(eh, e1)
        thr == DynamicThreshold(eh1, qber_threshold)
    IN  IF ~sifted1 THEN [exc |-> "QKDError", thresholds |-> <<>>, eh |-> eh]
        ELSE IF e1 > thr THEN
            IF security_boost_mode THEN
                IF ~sifted2
                    THEN [exc |-> "QKDError", thresholds |-> <<thr>>, eh |-> eh1]
                ELSE IF e2 > min_qber_threshold
                    THEN [exc |-> "EavesdropDetected",
                          thresholds |-> <<thr, min_qber_threshold>>, eh |-> eh1]
                ELSE [exc |-> QuantumKeyInit(QuantumKeyFields),
                      thresholds |-> <<thr, min_qber_threshold>>, eh |-> eh1]
            ELSE [exc |-> "EavesdropDetected", thresholds |-> <<thr>>, eh |-> eh1]
        ELSE [exc |-> "AttributeError", thresholds |-> <<thr>>, eh |-> eh1]

\* one call of _generate_key_ultra_fast on the protocol object
generate_key_ultra_fast(sifted1, e1, sifted2, e2) ==
    LET r == ultra_fast_outcome(error_rate_history, sifted1, e1, sifted2, e2)
    IN
    /\ UNCHANGED <<simulation_mode, QISKIT_AVAILABLE, CIRQ_AVAILABLE, current_backend,
                   qber_threshold, security_boost_mode, success_history,
                   threat_level, bb_tightened>>
    /\ error_rate_history' = r.eh
    /\ bb_ret' = BbRet("ultra_fast", r.exc, r.exc = "none", r.thresholds, <<>>)

\* QKDManager._update_threat_level: the level for n events in the last hour
ThreatLevelFor(n) ==
    IF n < ThreatLow THEN 0
    ELSE IF n < ThreatMedium THEN 1
    ELSE IF n < ThreatHigh THEN 2
    ELSE IF n < ThreatCritical THEN 3
    ELSE 4

\* QKDManager._update_threat_level with n security events in the last hour
update_threat_level(n) ==
    /\ threat_level' = ThreatLevelFor(n)
    /\ UNCHANGED <<simulation_mode, QISKIT_AVAILABLE, CIRQ_AVAILABLE, current_backend,
                   qber_threshold, security_boost_mode, success_history,
                   error_rate_history, bb_tightened, bb_ret>>

\* QKDManager._select_secure_protocol('BB84')
select_secure_protocol ==
    /\ IF threat_level >= 2
       THEN /\ security_boost_mode' = TRUE
            /\ qber_threshold' = Mul(qber_threshold, 8, 10)
            /\ bb_tightened' = bb_tightened + 1
       ELSE UNCHANGED <<security_boost_mode, qber_threshold, bb_tightened>>
    /\ UNCHANGED <<simulation_mode, QISKIT_AVAILABLE, CIRQ_AVAILABLE, current_backend,
                   success_history, error_rate_history, threat_level, bb_ret>>

GenerateKey ==
    /\ Len(error_rate_history) + 3 <= MaxHistory
    /\ \E e \in [1..3 -> ErrorRates], c \in [1..3 -> CorrectedRates] : generate_key(e, c)
    /\ UNCHANGED <<now, rlVars, smVars, kcVars, mgVars, fnVars, ccVars, xtVars>>

GenerateKeyUltraFast ==
    /\ Len(error_rate_history) + 1 <= MaxHistory
    /\ \E sifted1, sifted2 \in BOOLEAN, e1, e2 \in ErrorRates :
          generate_key_ultra_fast(sifted1, e1, sifted2, e2)
    /\ UNCHANGED <<now, rlVars, smVars, kcVars, mgVars, fnVars, ccVars, xtVars>>

UpdateThreatLevel ==
    /\ \E n \in EventCounts : update_threat_level(n)
    /\ UNCHANGED <<now, rlVars, smVars, kcVars, mgVars, fnVars, ccVars, xtVars>>

\* a channel that stays noisy: every measurement is HighError, and the two
\* generation paths are called until the histories pass HistoryCap
NoisyRates == [i \in 1..3 |-> HighError]

GenerateKeyNoisy ==
    /\ Len(error_rate_history) <= HistoryCap
    /\ Len(success_history) <= HistoryCap
    /\ generate_key(NoisyRates, NoisyRates)
    /\ UNCHANGED <<now, rlVars, smVars, kcVars, mgVars, fnVars, ccVars, xtVars>>

GenerateKeyUltraFastNoisy ==
    /\ generate_key_ultra_fast(TRUE, HighError, TRUE, HighError)
    /\ UNCHANGED <<now, rlVars, smVars, kcVars, mgVars, fnVars, ccVars, xtVars>>

SelectSecureProtocol ==
    /\ bb_tightened < MaxTighten
    /\ select_secure_protocol
    /\ UNCHANGED <<now, rlVars, smVars, kcVars, mgVars, fnVars, ccVars, xtVars>>

(***************************************************************************)
(* QKDManager                                                              *)
(***************************************************************************)

\* Strings are sequences of characters.  SafeChars samples the class
\* [a-zA-Z0-9_\-\.@]; every other character is outside it.
SafeChars == {"a", "b", "Z", "7", "_", "-", ".", "@"}
Digits == {"0", "1", "2", "3", "4", "5", "6", "7", "8", "9"}
NL == "\n"

\* re `$`: the position n is the end of s, or is just before a final newline
AtDollar(s, n) == n = Len(s) \/ (n = Len(s) - 1 /\ s[Len(s)] = NL)

\* safe_pattern.match(s) for ^[a-zA-Z0-9_\-\.@]+$
safe_pattern_match(s) ==
    \E n \in 1..Len(s) : (\A i \in 1..n : s[i] \in SafeChars) /\ AtDollar(s, n)

\* \d{1,3} from position i: the positions it can end before
DigitRunEnds(s, i) ==
    {j \in (i + 1)..Min2(i + 3, Len(s) + 1) : \A k \in i..(j - 1) : s[k] \in Digits}

\* (\d{1,3}\.){groups} from position i: the positions it can end before
RECURSIVE DottedGroupsEnds(_, _, _)
DottedGroupsEnds(s, i, groups) ==
    IF groups = 0 THEN {i}
    ELSE UNION {DottedGroupsEnds(s, j + 1, groups - 1) :
                   j \in {k \in DigitRunEnds(s, i) : k <= Len(s) /\ s[k] = "."}}

\* re.match(r'^(\d{1,3}\.){3}\d{1,3}$', s)
ip_pattern_match(s) ==
    \E i \in DottedGroupsEnds(s, 1, 3) : \E j \in DigitRunEnds(s, i) : AtDollar(s, j - 1)

Loopback == <<"1", "2", "7", ".", "0", ".", "0", ".", "1">>

\* _validate_security_requirements up to the IP check: the exception raised
validate_security_requirements(alice, bob, key_length, ip) ==
    IF alice = <<>> \/ bob = <<>> THEN "QKDError"
    ELSE IF Len(alice) > MaxIdLen \/ Len(bob) > MaxIdLen THEN "QKDError"
    ELSE IF key_length < MinKeyLength \/ key_length > MaxKeyLength THEN "QKDError"
    ELSE IF ~safe_pattern_match(alice) \/ ~safe_pattern_match(bob) THEN "QKDError"
    ELSE IF ~ip_pattern_match(ip) /\ ip # Loopback THEN "QKDError"
    ELSE "none"

\* _log_security_event(event_type, ...) on the list ev
LogSecurityEvent(ev, type) ==
    SelectSeq(Append(ev, [type |-> type, timestamp |-> now]),
              LAMBDA x : x.timestamp > now - event_retention)

\* the events _update_threat_level counts
RecentEvents(ev) == SelectSeq(ev, LAMBDA x : now - x.timestamp < threat_window)

\* whether generate_key takes the RateLimitExceeded branch for the
\* result of check_rate_limit
RateLimitedOff(ok) == FALSE
RateLimited(ok) == ~ok

MgRet(op, exc, ok, found) == [op |-> op, exc |-> exc, ok |-> ok, found |-> found]
None == [none |-> TRUE]
NoSessionId == 0

\* QKDManager.__init__
InitMG ==
    /\ qkd_sessions = <<>>
    /\ generated_keys = <<>>
    /\ security_events = <<>>
    /\ last_security_check = 0
    /\ performance_metrics = [total_requests |-> 0, blocked_requests |-> 0,
                              security_blocks |-> 0]
    /\ mg_next_id = 1
    /\ mg_ret = MgRet("none", "none", FALSE, None)

\* the except clause of QKDManager.generate_key after `blocks` earlier
\* increments of blocked_requests and security_blocks, on the event list ev
GenerationFailed(exc, blocks, ev) ==
    /\ performance_metrics' =
          [performance_metrics EXCEPT !.blocked_requests = @ + blocks + 1,
                                      !.security_blocks = @ + blocks]
    /\ security_events' = LogSecurityEvent(ev, "generation_failed")
    /\ mg_ret' = MgRet("generate_key", exc, FALSE, None)
    /\ UNCHANGED <<qkd_sessions, generated_keys, mg_next_id>>

\* _validate_generated_key for a key of key_length bits with error rate e
validate_generated_key(key_length, e) ==
    IF key_length \div 8 < MinKeyBytes THEN "QKDError"
    ELSE IF e > (IF simulation_mode THEN SimMaxErrorRate ELSE RealMaxErrorRate)
        THEN "EavesdropDetected"
    ELSE "none"

\* QKDManager.generate_key(alice_id, bob_id, key_length, 'BB84', ip_address,
\* session_id); e and c are the error rates the protocol run measures, and
\* calls bounds the number of calls a behaviour makes
mg_generate_key_within(calls, alice, bob, key_length, ip, session_id, e, c) ==
    LET v == validate_security_requirements(alice, bob, key_length, ip)
        due == now - last_security_check > security_check_interval
        tl == IF due THEN ThreatLevelFor(Len(RecentEvents(security_events)))
                     ELSE threat_level
    IN
    /\ performance_metrics.blocked_requests < calls
    /\ now' = now
    /\ UNCHANGED <<simulation_mode, QISKIT_AVAILABLE, CIRQ_AVAILABLE>>
    /\ IF v # "none" THEN
            /\ GenerationFailed(v, 0, security_events)
            /\ UNCHANGED <<rlVars, smVars, last_security_check, threat_level,
                           current_backend, qber_threshold, security_boost_mode,
                           success_history, error_rate_history, bb_tightened, bb_ret>>
       ELSE
            /\ threat_level' = tl
            /\ last_security_check' = IF due THEN now ELSE last_security_check
            /\ check_rate_limit(alice, ip)
            /\ IF RateLimited(rl_log'[Len(rl_log')].ok) THEN
                    /\ GenerationFailed("RateLimitExceeded", 1,
                           LogSecurityEvent(security_events, "rate_limit_exceeded"))
                    /\ UNCHANGED <<smVars, current_backend, qber_threshold,
                                   security_boost_mode, success_history,
                                   error_rate_history, bb_tightened, bb_ret>>
               ELSE
                    \E s \in {IF session_id = NoSessionId
                              THEN LET r == create_session_result(alice, bob)
                                   IN  [sid |-> r.sid, ok |-> TRUE, exc |-> "none",
                                        logged |-> FALSE, as |-> r.as, us |-> r.us,
                                        next |-> sm_next_id + 1, op |-> "create"]
                              ELSE LET r == validate_session_result(session_id, alice)
                                   IN  [sid |-> session_id, ok |-> r.result, exc |-> r.exc,
                                        logged |-> r.logged, as |-> r.as, us |-> r.us,
                                        next |-> sm_next_id, op |-> "validate"]} :
                    /\ session_id = NoSessionId => sm_next_id <= MaxSessionIds
                    /\ s.logged => TotalEvents(active_sessions) < MaxEvents
                    /\ user_sessions' = s.us
                    /\ sm_next_id' = s.next
                    /\ sm_ret' = Ret(s.op, s.ok, s.exc)
                    /\ IF s.exc # "none" THEN
                            /\ GenerationFailed(s.exc, 0, security_events)
                            /\ active_sessions' = s.as
                            /\ UNCHANGED <<current_backend, qber_threshold,
                                           security_boost_mode, success_history,
                                           error_rate_history, bb_tightened, bb_ret>>
                       ELSE IF ~s.ok THEN
                            /\ GenerationFailed("QKDError", 0,
                                   LogSecurityEvent(security_events, "invalid_session"))
                            /\ active_sessions' = s.as
                            /\ UNCHANGED <<current_backend, qber_threshold,
                                           security_boost_mode, success_history,
                                           error_rate_history, bb_tightened, bb_ret>>
                       ELSE
                            LET tight == tl >= 2
                                q == IF tight THEN Mul(qber_threshold, 8, 10)
                                              ELSE qber_threshold
                                kl == IF tl >= 3 THEN Max2(key_length, HighThreatKeyLength)
                                                 ELSE key_length
                            IN
                            /\ Len(error_rate_history) + 3 <= MaxHistoryMG
                            /\ security_boost_mode' = (tight \/ security_boost_mode)
                            /\ bb_tightened' = IF tight THEN bb_tightened + 1
                                                        ELSE bb_tightened
                            /\ generate_key_from(e, c, q)
                            /\ \E x \in {IF bb_ret'.exc # "none" THEN bb_ret'.exc
                                         ELSE validate_generated_key(kl, e[Len(bb_ret'.backends)])} :
                               IF x # "none" THEN
                                    /\ GenerationFailed(x, 0,
                                          IF x = "EavesdropDetected" /\ bb_ret'.exc = "none"
                                          THEN LogSecurityEvent(security_events, "high_error_rate")
                                          ELSE security_events)
                                    /\ active_sessions' = s.as
                               ELSE
                                    /\ active_sessions' =
                                          record_key_generation_result(s.as, s.sid, kl)
                                    /\ performance_metrics' =
                                          [performance_metrics EXCEPT !.total_requests = @ + 1]
                                    /\ generated_keys' =
                                          Put(generated_keys, mg_next_id,
                                              [key_id |-> mg_next_id, session_id |-> s.sid])
                                    /\ mg_next_id' = mg_next_id + 1
                                    /\ mg_ret' = MgRet("generate_key", "none", TRUE,
                                                       [key_id |-> mg_next_id,
                                                        length |-> kl])
                                    /\ UNCHANGED <<qkd_sessions, security_events>>

mg_generate_key(alice, bob, key_length, ip, session_id, e, c) ==
    mg_generate_key_within(MaxBlocked, alice, bob, key_length, ip, session_id, e, c)

\* start_bb84_session(alice_id, bob_id, key_length)
start_bb84_session(alice, bob, key_length, e, c) ==
    /\ Len(error_rate_history) + 3 <= MaxHistoryMG
    /\ generate_key(e, c)
    /\ now' = now
    /\ UNCHANGED <<rlVars, smVars, security_events, last_security_check,
                   performance_metrics>>
    /\ IF bb_ret'.exc = "none" THEN
            LET sid == mg_next_id
                kid == mg_next_id + 1
                key == [key_id |-> kid, session_id |-> sid]
                session == [session_id |-> sid, alice_id |-> alice, bob_id |-> bob,
                            key_length |-> key_length, created_at |-> now,
                            quantum_key |-> key]
            IN
            /\ qkd_sessions' = Put(qkd_sessions, sid, session)
            /\ generated_keys' = Put(generated_keys, kid, key)
            /\ mg_next_id' = mg_next_id + 2
            /\ mg_ret' = MgRet("start_bb84_session", "none", TRUE, session)
       ELSE
            /\ mg_ret' = MgRet("start_bb84_session", "QKDError", FALSE, None)
            /\ UNCHANGED <<qkd_sessions, generated_keys, mg_next_id>>

\* get_session(session_id)
get_session(sid) == Get(qkd_sessions, sid, None)

\* get_quantum_key(key_id)
get_quantum_key(kid) == Get(generated_keys, kid, None)

\* terminate_session(session_id)
terminate_session(sid) ==
    /\ UNCHANGED <<now, rlVars, smVars, bbVars, security_events,
                   last_security_check, performance_metrics, mg_next_id>>
    /\ IF sid \in DOMAIN qkd_sessions THEN
            /\ generated_keys' = Del(generated_keys, qkd_sessions[sid].quantum_key.key_id)
            /\ qkd_sessions' = Del(qkd_sessions, sid)
            /\ mg_ret' = MgRet("terminate_session", "none", TRUE, None)
       ELSE
            /\ mg_ret' = MgRet("terminate_session", "none", FALSE, None)
            /\ UNCHANGED <<qkd_sessions, generated_keys>>

\* the requests generate_key is called with: a well-formed one, and one
\* for each way of being malformed
Alice == <<"a">>
Bob == <<"b">>
GoodIp == <<"1", "0", ".", "0", ".", "0", ".", "7">>
GoodRequest == [alice |-> Alice, bob |-> Bob, key_length |-> GoodKeyLength, ip |-> GoodIp]
LongId == [i \in 1..(MaxIdLen + 1) |-> "a"]
MalformedIds == {<<>>, LongId, <<"a", "!">>, <<"a", " ", "b">>, <<"a", NL>>, <<NL>>}
MalformedIps == {<<"h", "o", "s", "t">>, <<"1", "0", ".", "0", ".", "7">>,
                 <<"1", "0", ".", "0", ".", "0", ".", "7", NL>>, <<>>}
MalformedLengths == {MinKeyLength - 1, MaxKeyLength + 1, 0}
Requests ==
    {GoodRequest}
    \cup {[GoodRequest EXCEPT !.alice = x] : x \in MalformedIds}
    \cup {[GoodRequest EXCEPT !.bob = x] : x \in {<<>>, <<"b", "!">>}}
    \cup {[GoodRequest EXCEPT !.ip = x] : x \in MalformedIps}
    \cup {[GoodRequest EXCEPT !.key_length = x] : x \in MalformedLengths}

\* the session_id arguments: None, and the first id the session manager
\* hands out
SessionIdArgs == {NoSessionId, NoSessionId + 1}

\* the error rates one protocol run measures in its three attempts, and
\* the one it estimates again after error correction
MgRates == {[i \in 1..3 |-> LowError]}
MgCorrected == [i \in 1..3 |-> LowError]

ManagerGenerateKey ==
    /\ \E r \in Requests, sid \in SessionIdArgs, e \in MgRates :
          mg_generate_key(r.alice, r.bob, r.key_length, r.ip, sid, e, MgCorrected)
    /\ UNCHANGED <<kcVars, fnVars, ccVars, xtVars>>

\* the calls of one behaviour that starts after ThreatHigh failed calls
CallsTL == 3

ManagerGenerateKeyTL ==
    /\ \E r \in Requests, sid \in SessionIdArgs, e \in MgRates :
          mg_generate_key_within(ThreatHigh + CallsTL, r.alice, r.bob, r.key_length,
                                 r.ip, sid, e, MgCorrected)
    /\ UNCHANGED <<kcVars, fnVars, ccVars, xtVars>>

StartBB84Session ==
    /\ \E e \in MgRates : start_bb84_session(Alice, Bob, GoodKeyLength, e, MgCorrected)
    /\ UNCHANGED <<kcVars, fnVars, ccVars, xtVars>>

TerminateSession ==
    /\ \E sid \in QkdIds : terminate_session(sid)
    /\ UNCHANGED <<kcVars, fnVars, ccVars, xtVars>>

\* the clock advances past the security check interval between two calls
TickMG ==
    /\ now < MaxTimeMG
    /\ now' = now + security_check_interval + 1
    /\ UNCHANGED <<rlVars, smVars, kcVars, bbVars, mgVars, fnVars, ccVars, xtVars>>

(***************************************************************************)
(* Pure functions of the protocols: key sifting, error estimation,         *)
(* privacy amplification, security levels.  Rates, confidences and levels  *)
(* are in units of 1/Scale.                                                *)
(***************************************************************************)

NoCall == [op |-> "none"]

\* s[:n]
Take(s, n) == SubSeq(s, 1, Min2(Max2(n, 0), Len(s)))

\* a_basis == b_basis
BasisMatchAny(a, b) == TRUE
BasisMatch(a, b) == a = b

\* the loop of BB84Protocol.sift_key from list position i on; the indices
\* it collects count from 0 as enumerate does
RECURSIVE SiftKeyLoop(_, _, _, _, _)
SiftKeyLoop(i, alice_bases, bob_bases, bob_measurements, acc) ==
    IF i > Min2(Len(alice_bases), Len(bob_bases)) THEN acc
    ELSE SiftKeyLoop(i + 1, alice_bases, bob_bases, bob_measurements,
             IF BasisMatch(alice_bases[i], bob_bases[i])
             THEN [sifted_key |-> Append(acc.sifted_key, bob_measurements[i]),
                   matching_indices |-> Append(acc.matching_indices, i - 1)]
             ELSE acc)

\* BB84Protocol.sift_key(alice_bases, bob_bases, bob_measurements)
sift_key(alice_bases, bob_bases, bob_measurements) ==
    SiftKeyLoop(1, alice_bases, bob_bases, bob_measurements,
                [sifted_key |-> <<>>, matching_indices |-> <<>>])

\* the loop of QuantumUtils.sift_quantum_key
RECURSIVE SiftQuantumKeyLoop(_, _, _, _, _, _)
SiftQuantumKeyLoop(i, alice_bits, bob_bits, alice_bases, bob_bases, acc) ==
    IF i > Min2(Len(alice_bases), Len(bob_bases)) THEN acc
    ELSE SiftQuantumKeyLoop(i + 1, alice_bits, bob_bits, alice_bases, bob_bases,
             IF BasisMatch(alice_bases[i], bob_bases[i])
             THEN [alice_sifted |-> Append(acc.alice_sifted, alice_bits[i]),
                   bob_sifted |-> Append(acc.bob_sifted, bob_bits[i]),
                   matching_indices |-> Append(acc.matching_indices, i - 1)]
             ELSE acc)

\* QuantumUtils.sift_quantum_key(alice_bits, bob_bits, alice_bases, bob_bases)
sift_quantum_key(alice_bits, bob_bits, alice_bases, bob_bases) ==
    SiftQuantumKeyLoop(1, alice_bits, bob_bits, alice_bases, bob_bases,
                       [alice_sifted |-> <<>>, bob_sifted |-> <<>>,
                        matching_indices |-> <<>>])

\* errors / total
RateOff(errors, total) == errors * Scale
Rate(errors, total) == (errors * Scale) \div total

\* estimate_error_rate: test_size for n bits and test_fraction 0.2
TestSize(n) == Max2(1, n \div 5)

\* estimate_error_rate: the index lists it may test for n bits.  Distributed
\* sampling is fixed; SystemRandom().sample may return any test_size
\* distinct indices in any order.
TestIndices(n) ==
    LET test_size == TestSize(n)
        step == n \div test_size
    IN  IF n > test_size * 2
        THEN {[k \in 1..test_size |-> (k - 1) * step]}
        ELSE {idx \in [1..test_size -> 0..(n - 1)] :
                 \A j, k \in 1..test_size : j # k => idx[j] # idx[k]}

\* BB84Protocol.estimate_error_rate(alice_bits, bob_bits) testing the
\* indices test_indices, with _last_measurement_confidences = confidences
\* (empty when the attribute is missing)
estimate_error_rate(alice_bits, bob_bits, confidences, sim, test_indices) ==
    IF Len(alice_bits) # Len(bob_bits) \/ Len(alice_bits) = 0 THEN Scale
    ELSE
        LET test_size == TestSize(Len(alice_bits))
            errors == Cardinality({k \in 1..Len(test_indices) :
                         alice_bits[test_indices[k] + 1] # bob_bits[test_indices[k] + 1]})
            total_confidence ==
                SumSeq([k \in 1..Len(test_indices) |->
                           IF test_indices[k] < Len(confidences)
                           THEN confidences[test_indices[k] + 1]
                           ELSE DefaultConfidence])
            base_error_rate == Rate(errors, test_size)
            avg_confidence == total_confidence \div test_size
            confidence_factor == Min2(avg_confidence, MaxConfidenceFactor)
            smoothed0 == Mul(base_error_rate, Scale \div 2 + confidence_factor \div 2, Scale)
            smoothed_rate == IF avg_confidence > DefaultConfidence
                             THEN Mul(smoothed0, 8, 10) ELSE smoothed0
        IN  IF sim /\ base_error_rate > 0
            THEN Min2(smoothed_rate, base_error_rate)
            ELSE base_error_rate

\* BB84Protocol._calculate_adaptive_qber(alice_bits, bob_bits,
\* alice_bases == bob_bases)
calculate_adaptive_qber(alice_bits, bob_bits, alice_bases, bob_bases) ==
    LET matching == {i \in 1..Len(alice_bases) : alice_bases[i] = bob_bases[i]}
        errors == Cardinality({i \in matching : alice_bits[i] # bob_bits[i]})
        total == Cardinality(matching)
    IN  IF total = 0 THEN Scale ELSE Rate(errors, total)

\* hashlib.sha256(...).digest(): DigestSize bytes; the bytes are opaque
Digest(tag) == [i \in 1..DigestSize |-> <<tag, i>>]

\* privacy_amplification: the key after the extension of a short key
ExtendedKey(key, target_length) ==
    LET pattern_length == IF Len(key) > 4 THEN Min2(8, Len(key) \div 4) ELSE Len(key)
        extension_pattern == IF pattern_length > 0
                             THEN SubSeq(key, Len(key) - pattern_length + 1, Len(key))
                             ELSE <<0>>
    IN  [j \in 1..Max2(Len(key), target_length * 2) |->
            IF j <= Len(key) THEN key[j]
            ELSE (extension_pattern[((j - 1 - Len(key)) % Len(extension_pattern)) + 1]
                    + ((j - 1) % 2)) % 2]

\* the layers privacy_amplification joins: it stops after the first layer
\* that makes the key long enough
RECURSIVE JoinLayers(_, _, _)
JoinLayers(layers, final_key, target_length) ==
    IF layers = <<>> THEN final_key
    ELSE LET joined == final_key \o Head(layers)
         IN  IF Len(joined) >= target_length THEN joined
             ELSE JoinLayers(Tail(layers), joined, target_length)

\* BB84Protocol.privacy_amplification(key, target_length)
privacy_amplification(key, target_length) ==
    LET key1 == IF Len(key) < target_length THEN ExtendedKey(key, target_length) ELSE key
        key_bytes == Take(key1, Max2(target_length * 8, Len(key1)))
        amplified_keys == <<Digest("Layer1"), Digest("Layer2"), Digest("Final")>>
    IN  [exc |-> "none",
         out |-> Take(JoinLayers(amplified_keys, <<>>, target_length), target_length)]

\* EnhancedBB84Protocol._enhanced_privacy_amplification(key, target_length,
\* decoy_analysis) with decoy_analysis["security_parameter"] = security_factor
enhanced_privacy_amplification(key, target_length, security_factor) ==
    IF Len(key) < target_length /\ Len(key) = 0
    THEN [exc |-> "ZeroDivisionError", out |-> <<>>]
    ELSE LET rounds == Max2(2, ((target_length \div DigestSize) * (Scale + security_factor))
                                   \div Scale)
             final_key == [i \in 1..(rounds * DigestSize) |->
                              <<(i - 1) \div DigestSize, ((i - 1) % DigestSize) + 1>>]
         IN  [exc |-> "none", out |-> Take(final_key, target_length)]

\* the hash truncation of SARG04Protocol.generate_key and
\* E91Protocol.generate_key
hash_truncation(key, target_bytes) ==
    [exc |-> "none", out |-> Take(Digest("SARG04"), target_bytes)]

\* the security_level of the key _emergency_key_generation builds
emergency_security_level == 9000
\* the security_level of the key _generate_key_emergency_mode builds
emergency_mode_security_level == 8000

\* the security_level of the key _generate_key_attempt builds after an
\* attempt that measured error_rate on `backend` with mean measurement
\* confidence measurement_quality
attempt_security_level(error_rate, measurement_quality, backend) ==
    LET base_security == Max2(0, Scale - error_rate * 6)
        quality_bonus == Mul(measurement_quality, 3, 10)
        backend_bonus == IF backend \in {"qiskit", "cirq"} THEN Scale \div 10 ELSE 0
    IN  Min2(Scale, base_security + quality_bonus + backend_bonus)

\* BB84Protocol.noise_probability, set by __init__ (lines 942 and 953)
noise_probability == IF simulation_mode THEN SimNoise ELSE RealNoise

\* _validate_inputs_fast for well-formed ids
validate_inputs_fast(key_length) ==
    key_length >= MinKeyLength /\ key_length <= MaxKeyLength

\* _calculate_optimal_qubits: int(key_length / 0.5 * security_overhead),
\* capped at 2048 and at least key_length // 2
calculate_optimal_qubits(key_length, boost) ==
    LET optimal_qubits == IF boost THEN (key_length * 2 * 15) \div 10
                                   ELSE (key_length * 2 * 12) \div 10
    IN  Max2(Min2(optimal_qubits, MaxQubits), key_length \div 2)

\* _get_adaptive_noise_rate
get_adaptive_noise_rate(boost) ==
    IF boost THEN Mul(noise_probability, 8, 10) ELSE noise_probability

\* shared_bits, expanded by _secure_key_expansion when shorter than the
\* key, then cut by shared_bits[:key_length]: the number of bits of
\* key_data, or the QKDError of an expansion from fewer than 16 bits
KeyData(shared, key_length) ==
    IF shared >= key_length THEN [exc |-> "none", len |-> key_length]
    ELSE IF shared < MinExpansionBits THEN [exc |-> "QKDError", len |-> 0]
    ELSE [exc |-> "none", len |-> key_length]

\* the property QuantumKey.final_key: bytes(self.key_data) has one byte for
\* each element of the list, here one byte for each bit
final_key_len(key_data_len) == key_data_len

UfRet(exc, key_data_len, path, qubits, noise, thr) ==
    [exc |-> exc, key_data_len |-> key_data_len,
     final_key_len |-> final_key_len(key_data_len), path |-> path,
     qubits |-> qubits, noise |-> noise, thr |-> thr]

\* _generate_enhanced_security_key with `shared` basis-matched bits and
\* measured error rate e; qubits, noise and thr of the normal path are
\* carried along, each followed by the enhanced path's own value
enhanced_security_key(key_length, shared, e, qubits, noise, thr) ==
    LET enhanced_qubits == (key_length * 25) \div 10
        enhanced_noise_rate == Mul(noise_probability, 5, 10)
        q == <<qubits, enhanced_qubits>>
        n == <<noise, enhanced_noise_rate>>
        t == <<thr, min_qber_threshold>>
        kd == KeyData(shared, key_length)
    IN  IF shared * 10 < key_length * 4
            THEN UfRet("QKDError", 0, "enhanced", q, n, <<thr>>)
        ELSE IF e > min_qber_threshold
            THEN UfRet("EavesdropDetected", 0, "enhanced", q, n, t)
        ELSE UfRet(kd.exc, kd.len, "enhanced", q, n, t)

\* _generate_key_ultra_fast(alice_id, bob_id, key_length): shared1 bits
\* with matching bases and error rate e1 on the normal path, shared2 and e2
\* on the enhanced path; eh is error_rate_history, q is qber_threshold.
\* The normal path ends in the metadata entry
\* `self.current_backend.value`: current_backend is a str, so building the
\* key raises AttributeError.
ultra_fast_key(key_length, boost, shared1, e1, shared2, e2, eh, q) ==
    LET n_qubits == calculate_optimal_qubits(key_length, boost)
        noise_rate == get_adaptive_noise_rate(boost)
        kd == KeyData(shared1, key_length)
        current_threshold == DynamicThreshold(DynamicHistory(eh, e1), q)
    IN  IF ~validate_inputs_fast(key_length)
            THEN UfRet("QKDError", 0, "normal", <<>>, <<>>, <<>>)
        ELSE IF shared1 * 10 < key_length * 3
            THEN UfRet("QKDError", 0, "normal", <<n_qubits>>, <<noise_rate>>, <<>>)
        ELSE IF kd.exc # "none"
            THEN UfRet(kd.exc, 0, "normal", <<n_qubits>>, <<noise_rate>>, <<>>)
        ELSE IF e1 > current_threshold
            THEN IF boost
                 THEN enhanced_security_key(key_length, shared2, e2, n_qubits,
                                            noise_rate, current_threshold)
                 ELSE UfRet("EavesdropDetected", 0, "normal", <<n_qubits>>,
                            <<noise_rate>>, <<current_threshold>>)
        ELSE UfRet("AttributeError", 0, "normal", <<n_qubits>>, <<noise_rate>>,
                   <<current_threshold>>)

\* the arguments the functions are called with
RECURSIVE BitSeqs(_)
BitSeqs(n) == IF n = 0 THEN {<<>>}
              ELSE {Append(s, b) : s \in BitSeqs(n - 1), b \in {0, 1}}
BitSeqsUpTo(n) == UNION {BitSeqs(k) : k \in 0..n}

SiftKeyInputs ==
    UNION {[op : {"sift_key"}, alice_bases : BitSeqs(n), bob_bases : BitSeqs(n),
            bob_measurements : BitSeqs(n)] : n \in 0..MaxBits}

SiftQuantumKeyInputs ==
    UNION {[op : {"sift_quantum_key"}, alice_bits : BitSeqs(n), bob_bits : BitSeqs(n),
            alice_bases : BitSeqs(n), bob_bases : BitSeqs(n)] : n \in 0..(MaxBits - 1)}

\* ten bits, so that two spread indices are tested
LongBits == {[i \in 1..10 |-> 0], [i \in 1..10 |-> i % 2], [i \in 1..10 |-> 1]}
Confidences == {<<>>, <<5000>>, <<10000, 10000, 10000>>, <<6000, 9000>>}

EstimateInputs ==
    [op : {"estimate_error_rate"}, alice_bits : BitSeqsUpTo(MaxBits) \cup LongBits,
     bob_bits : BitSeqsUpTo(MaxBits - 1) \cup LongBits, confidences : Confidences,
     sim : BOOLEAN]

AdaptiveQberInputs ==
    UNION {[op : {"calculate_adaptive_qber"}, alice_bits : BitSeqs(n), bob_bits : BitSeqs(n),
            alice_bases : BitSeqs(n), bob_bases : BitSeqs(n)] : n \in 0..(MaxBits - 1)}

\* target lengths in bytes for key_length 16..8192 bits
TargetLengths == {MinKeyLength \div 8, DigestSize, DigestSize + 1, 3 * DigestSize,
                  3 * DigestSize + 1, MaxKeyLength \div 8}
SiftedKeys == BitSeqsUpTo(MaxBits) \cup {[i \in 1..40 |-> i % 2]}

AmplificationInputs ==
    [op : {"privacy_amplification", "enhanced_privacy_amplification", "hash_truncation"},
     key : SiftedKeys, target_length : TargetLengths,
     security_factor : {Scale \div 10, Scale \div 2}]

SecurityLevelInputs ==
    [op : {"security_level"}, error_rate : {0, 100, 1000} \cup ErrorRates,
     corrected : CorrectedRates,
     measurement_quality : {Scale \div 2, (Scale * 8) \div 10, Scale},
     backend : {"qiskit", "cirq", "pennylane"}]

\* key lengths in bits, and the quarters of the qubits whose bases match
UltraFastLengths == {MinKeyLength \div 2, MinKeyLength, GoodKeyLength,
                     4 * GoodKeyLength, MaxKeyLength}
Quarters == {0, 1, 2, 4}

UltraFastInputs ==
    [op : {"ultra_fast"}, key_length : UltraFastLengths, quarters1 : Quarters,
     e1 : ErrorRates, quarters2 : Quarters, e2 : ErrorRates]

\* one call of sift_key or sift_quantum_key
SiftKey ==
    /\ fn_ret = NoCall
    /\ \/ /\ fn_in.op = "sift_key"
          /\ fn_ret' = [op |-> "sift_key",
                        ret |-> sift_key(fn_in.alice_bases, fn_in.bob_bases,
                                         fn_in.bob_measurements)]
       \/ /\ fn_in.op = "sift_quantum_key"
          /\ fn_ret' = [op |-> "sift_quantum_key",
                        ret |-> sift_quantum_key(fn_in.alice_bits, fn_in.bob_bits,
                                                 fn_in.alice_bases, fn_in.bob_bases)]
    /\ UNCHANGED <<now, rlVars, smVars, kcVars, bbVars, mgVars, fn_in, ccVars, xtVars>>

\* one call of estimate_error_rate or _calculate_adaptive_qber
EstimateErrorRate ==
    /\ fn_ret = NoCall
    /\ \/ /\ fn_in.op = "estimate_error_rate"
          /\ \E idx \in TestIndices(Len(fn_in.alice_bits)) :
                fn_ret' = [op |-> "estimate_error_rate",
                           ret |-> estimate_error_rate(fn_in.alice_bits, fn_in.bob_bits,
                                       fn_in.confidences, fn_in.sim, idx)]
       \/ /\ fn_in.op = "calculate_adaptive_qber"
          /\ fn_ret' = [op |-> "calculate_adaptive_qber",
                        ret |-> calculate_adaptive_qber(fn_in.alice_bits, fn_in.bob_bits,
                                    fn_in.alice_bases, fn_in.bob_bases)]
    /\ UNCHANGED <<now, rlVars, smVars, kcVars, bbVars, mgVars, fn_in, ccVars, xtVars>>

\* one call of a privacy amplification step
PrivacyAmplification ==
    /\ fn_ret = NoCall
    /\ \/ /\ fn_in.op = "privacy_amplification"
          /\ fn_ret' = [op |-> fn_in.op,
                        ret |-> privacy_amplification(fn_in.key, fn_in.target_length)]
       \/ /\ fn_in.op = "enhanced_privacy_amplification"
          /\ fn_ret' = [op |-> fn_in.op,
                        ret |-> enhanced_privacy_amplification(fn_in.key,
                                    fn_in.target_length, fn_in.security_factor)]
       \/ /\ fn_in.op = "hash_truncation"
          /\ fn_ret' = [op |-> fn_in.op,
                        ret |-> hash_truncation(fn_in.key, fn_in.target_length)]
    /\ UNCHANGED <<now, rlVars, smVars, kcVars, bbVars, mgVars, fn_in, ccVars, xtVars>>

\* the security levels of the keys built after one protocol attempt that
\* passed error correction, and by the two emergency paths
SecurityLevel ==
    /\ fn_ret = NoCall
    /\ fn_in.op = "security_level"
    /\ handle_error_correction(fn_in.error_rate,
                               BackendThreshold(fn_in.backend, qber_threshold),
                               fn_in.corrected, success_history, error_rate_history,
                               qber_threshold).ok
    /\ fn_ret' = [op |-> "security_level",
                  ret |-> [attempt |-> attempt_security_level(fn_in.error_rate,
                                           fn_in.measurement_quality, fn_in.backend),
                           emergency |-> emergency_security_level,
                           emergency_mode |-> emergency_mode_security_level]]
    /\ UNCHANGED <<now, rlVars, smVars, kcVars, bbVars, mgVars, fn_in, ccVars, xtVars>>

(***************************************************************************)
(* SecurityRateLimiter.check_rate_limit called from several threads for    *)
(* the same user and address.  The method takes no lock, so the threads    *)
(* interleave between its statements.                                      *)
(***************************************************************************)

Threads == {"t1", "t2"}
CcUser == "u1"
CcIp == "ip1"

\* no call under way
InitCC ==
    /\ cc_pc = [t \in Threads |-> "idle"]
    /\ cc_time = [t \in Threads |-> 0]

\* a call returns: its result is logged and its thread is free again
CcReturn(t, ok, why) ==
    /\ rl_log' = Append(rl_log, [t |-> cc_time[t], user |-> CcUser, ip |-> CcIp,
                                  ok |-> ok, why |-> why])
    /\ cc_pc' = [cc_pc EXCEPT ![t] = "idle"]

\* lines 103-108: current_time is read and the periodic cleanup runs
CcEnter(t) ==
    LET due == now - rl_last_cleanup > cleanup_interval
        c == CleanupOldEntries(user_requests, ip_requests, global_requests, now)
    IN
    /\ cc_pc[t] = "idle"
    /\ Len(rl_log) + Cardinality({x \in Threads : cc_pc[x] # "idle"}) < MaxCalls
    /\ cc_time' = [cc_time EXCEPT ![t] = now]
    /\ cc_pc' = [cc_pc EXCEPT ![t] = "global"]
    /\ IF due THEN /\ user_requests' = c.ur
                   /\ ip_requests' = c.ir
                   /\ global_requests' = c.gr
                   /\ rl_last_cleanup' = now
              ELSE UNCHANGED <<user_requests, ip_requests, global_requests,
                               rl_last_cleanup>>
    /\ UNCHANGED rl_log

\* lines 111-113: the global list is pruned and counted
CcCheckGlobal(t) ==
    LET gr1 == Recent(global_requests, cc_time[t], WinSecond)
    IN
    /\ cc_pc[t] = "global"
    /\ global_requests' = gr1
    /\ IF AtCap(Len(gr1), global_limit_per_second)
       THEN CcReturn(t, FALSE, "global")
       ELSE /\ cc_pc' = [cc_pc EXCEPT ![t] = "ip"]
            /\ UNCHANGED rl_log
    /\ UNCHANGED <<user_requests, ip_requests, rl_last_cleanup, cc_time>>

\* lines 116-120: the address's list is created, pruned and counted
CcCheckIp(t) ==
    LET ir1 == Put(ip_requests, CcIp,
                   Recent(Get(ip_requests, CcIp, <<>>), cc_time[t], WinMinute))
    IN
    /\ cc_pc[t] = "ip"
    /\ ip_requests' = ir1
    /\ IF AtCap(Len(ir1[CcIp]), ip_limit_per_minute)
       THEN CcReturn(t, FALSE, "ip")
       ELSE /\ cc_pc' = [cc_pc EXCEPT ![t] = "user"]
            /\ UNCHANGED rl_log
    /\ UNCHANGED <<user_requests, global_requests, rl_last_cleanup, cc_time>>

\* lines 123-134: the user's list is created and counted per minute and hour
CcCheckUser(t) ==
    LET ur1 == Put(user_requests, CcUser, Get(user_requests, CcUser, <<>>))
        nMin == Len(Recent(ur1[CcUser], cc_time[t], WinMinute))
        nHour == Len(Recent(ur1[CcUser], cc_time[t], WinHour))
    IN
    /\ cc_pc[t] = "user"
    /\ user_requests' = ur1
    /\ IF AtCap(nMin, user_limit_per_minute) THEN CcReturn(t, FALSE, "user_minute")
       ELSE IF AtCap(nHour, user_limit_per_hour) THEN CcReturn(t, FALSE, "user_hour")
       ELSE /\ cc_pc' = [cc_pc EXCEPT ![t] = "record"]
            /\ UNCHANGED rl_log
    /\ UNCHANGED <<ip_requests, global_requests, rl_last_cleanup, cc_time>>

\* lines 137-141: the request is recorded in the three lists
CcRecord(t) ==
    /\ cc_pc[t] = "record"
    /\ user_requests' = Put(user_requests, CcUser,
                            Append(Get(user_requests, CcUser, <<>>), cc_time[t]))
    /\ ip_requests' = Put(ip_requests, CcIp,
                          Append(Get(ip_requests, CcIp, <<>>), cc_time[t]))
    /\ global_requests' = Append(global_requests, cc_time[t])
    /\ CcReturn(t, TRUE, "ok")
    /\ UNCHANGED <<rl_last_cleanup, cc_time>>

Enter ==
    /\ \E t \in Threads : CcEnter(t)
    /\ UNCHANGED <<now, smVars, kcVars, bbVars, mgVars, fnVars, xtVars>>

CheckGlobal ==
    /\ \E t \in Threads : CcCheckGlobal(t)
    /\ UNCHANGED <<now, smVars, kcVars, bbVars, mgVars, fnVars, xtVars>>

CheckIp ==
    /\ \E t \in Threads : CcCheckIp(t)
    /\ UNCHANGED <<now, smVars, kcVars, bbVars, mgVars, fnVars, xtVars>>

CheckUser ==
    /\ \E t \in Threads : CcCheckUser(t)
    /\ UNCHANGED <<now, smVars, kcVars, bbVars, mgVars, fnVars, xtVars>>

Record ==
    /\ \E t \in Threads : CcRecord(t)
    /\ UNCHANGED <<now, smVars, kcVars, bbVars, mgVars, fnVars, xtVars>>

TickCC ==
    /\ now < MaxTimeCC
    /\ now' = now + 1
    /\ UNCHANGED <<rlVars, smVars, kcVars, bbVars, mgVars, fnVars, ccVars, xtVars>>

(***************************************************************************)
(* HighPerformanceKeyCache.get_cached_key and cache_key called from        *)
(* several threads for the same (alice_id, bob_id, key_length).  Neither   *)
(* method takes a lock, so the threads interleave between the statements;  *)
(* a single list or dict operation is atomic.  fast_lookup_mode is on and  *)
(* the clock stands still, so every stored key is within its ttl.          *)
(***************************************************************************)
KqQueue == 1

KqAt(pc, key) == [pc |-> pc, key |-> key]

\* no call under way
InitKQ ==
    /\ kq_pc = [t \in Threads |-> KqAt("idle", NoKey)]
    /\ kq_put = {}

KqGoto(t, pc, key) == kq_pc' = [kq_pc EXCEPT ![t] = KqAt(pc, key)]

\* self.key_cache[cache_key] on a deleted queue, [].pop(0)
KqRaise(t, exc) ==
    /\ KqGoto(t, exc, NoKey)
    /\ UNCHANGED <<key_cache, kc_order, creation_times, kc_dispensed, kq_put>>

\* line 495: `cache_key in self.key_cache`; absent, the slow path's test
\* (line 510) finds the same and the call returns None
KqGetEnter(t) ==
    /\ kq_pc[t].pc = "idle"
    /\ IF KqQueue \in DOMAIN key_cache
       THEN KqGoto(t, "get_check", NoKey)
       ELSE KqGoto(t, "idle", NoKey)
    /\ UNCHANGED <<key_cache, kc_order, creation_times, kc_dispensed, kq_put>>

\* line 496: `if self.key_cache[cache_key]`; an empty queue sends the call
\* through the slow path's test to the miss
KqGetCheck(t) ==
    /\ kq_pc[t].pc = "get_check"
    /\ IF KqQueue \notin DOMAIN key_cache THEN KqRaise(t, "KeyError")
       ELSE /\ IF key_cache[KqQueue] # <<>>
               THEN KqGoto(t, "get_pop", NoKey)
               ELSE KqGoto(t, "idle", NoKey)
            /\ UNCHANGED <<key_cache, kc_order, creation_times, kc_dispensed, kq_put>>

\* line 497: `key = self.key_cache[cache_key].pop(0)`
KqGetPop(t) ==
    /\ kq_pc[t].pc = "get_pop"
    /\ IF KqQueue \notin DOMAIN key_cache THEN KqRaise(t, "KeyError")
       ELSE IF key_cache[KqQueue] = <<>> THEN KqRaise(t, "IndexError")
       ELSE /\ key_cache' = Put(key_cache, KqQueue, PopFront(key_cache[KqQueue]))
            /\ KqGoto(t, "get_empty", Head(key_cache[KqQueue]))
            /\ UNCHANGED <<kc_order, creation_times, kc_dispensed, kq_put>>

\* line 498: `if not self.key_cache[cache_key]`; with keys left the call
\* returns its key (line 507)
KqGetEmpty(t) ==
    /\ kq_pc[t].pc = "get_empty"
    /\ IF KqQueue \notin DOMAIN key_cache THEN KqRaise(t, "KeyError")
       ELSE /\ IF key_cache[KqQueue] = <<>>
               THEN /\ KqGoto(t, "get_del", kq_pc[t].key)
                    /\ UNCHANGED kc_dispensed
               ELSE /\ KqGoto(t, "idle", NoKey)
                    /\ kc_dispensed' = Append(kc_dispensed, kq_pc[t].key.id)
            /\ UNCHANGED <<key_cache, kc_order, creation_times, kq_put>>

\* line 499: `del self.key_cache[cache_key]`, then the return of line 507
KqGetDel(t) ==
    /\ kq_pc[t].pc = "get_del"
    /\ IF KqQueue \notin DOMAIN key_cache THEN KqRaise(t, "KeyError")
       ELSE /\ key_cache' = Del(key_cache, KqQueue)
            /\ kc_order' = Remove(kc_order, KqQueue)
            /\ KqGoto(t, "idle", NoKey)
            /\ kc_dispensed' = Append(kc_dispensed, kq_pc[t].key.id)
            /\ UNCHANGED <<creation_times, kq_put>>

\* line 539: `if cache_key not in self.key_cache`, for a new key object
KqPutEnter(t) ==
    /\ kq_pc[t].pc = "idle"
    /\ kc_next_key <= MaxKeys
    /\ kc_next_key' = kc_next_key + 1
    /\ IF KqQueue \notin DOMAIN key_cache
       THEN KqGoto(t, "put_init", [id |-> kc_next_key, put_at |-> now])
       ELSE KqGoto(t, "put_append", [id |-> kc_next_key, put_at |-> now])
    /\ UNCHANGED <<key_cache, kc_order, creation_times, kc_dispensed, kq_put>>

\* lines 540-541: `self.key_cache[cache_key] = []` and the creation time
KqPutInit(t) ==
    /\ kq_pc[t].pc = "put_init"
    /\ key_cache' = Put(key_cache, KqQueue, <<>>)
    /\ kc_order' = IF KqQueue \in DOMAIN key_cache THEN kc_order
                   ELSE Append(kc_order, KqQueue)
    /\ creation_times' = Put(creation_times, KqQueue, now)
    /\ KqGoto(t, "put_append", kq_pc[t].key)
    /\ UNCHANGED <<kc_dispensed, kq_put, kc_next_key>>

\* line 544: `self.key_cache[cache_key].append(key)`; one queue never
\* exceeds the capacity, so the call returns
KqPutAppend(t) ==
    /\ kq_pc[t].pc = "put_append"
    /\ UNCHANGED kc_next_key
    /\ IF KqQueue \notin DOMAIN key_cache THEN KqRaise(t, "KeyError")
       ELSE /\ key_cache' = Put(key_cache, KqQueue,
                                PushBack(key_cache[KqQueue], kq_pc[t].key))
            /\ kq_put' = kq_put \cup {kq_pc[t].key.id}
            /\ KqGoto(t, "idle", NoKey)
            /\ UNCHANGED <<kc_order, creation_times, kc_dispensed>>

KqFrame ==
    UNCHANGED <<now, rlVars, smVars, bbVars, mgVars, fnVars, ccVars, idVars, encVars, evVars,
                gfVars,
                access_times, fast_lookup_mode, kc_last_cleanup, kc_ret>>

GetEnter ==
    /\ \E t \in Threads : KqGetEnter(t)
    /\ UNCHANGED kc_next_key
    /\ KqFrame

GetCheck ==
    /\ \E t \in Threads : KqGetCheck(t)
    /\ UNCHANGED kc_next_key
    /\ KqFrame

GetPop ==
    /\ \E t \in Threads : KqGetPop(t)
    /\ UNCHANGED kc_next_key
    /\ KqFrame

GetEmpty ==
    /\ \E t \in Threads : KqGetEmpty(t)
    /\ UNCHANGED kc_next_key
    /\ KqFrame

GetDel ==
    /\ \E t \in Threads : KqGetDel(t)
    /\ UNCHANGED kc_next_key
    /\ KqFrame

PutEnter ==
    /\ \E t \in Threads : KqPutEnter(t)
    /\ KqFrame

PutInit ==
    /\ \E t \in Threads : KqPutInit(t)
    /\ KqFrame

PutAppend ==
    /\ \E t \in Threads : KqPutAppend(t)
    /\ KqFrame

(***************************************************************************)
(* QuantumEncryption (quantum_encryptor.py).  Bytes are 0..3 here.  AES     *)
(* in CBC mode and ChaCha20-Poly1305 are ideal ciphers: a ciphertext is    *)
(* the term <<cipher, key, nonce, plaintext>>, which only the same key and *)
(* nonce open.  SHA-256 and HMAC are the terms of their arguments.         *)
(***************************************************************************)
Algorithms == {"quantum_otp", "aes_quantum", "chacha20_quantum"}

\* a ^ b on bytes
XorByte(a, b) ==
    (((a % 2) + (b % 2)) % 2) + 2 * (((a \div 2) + (b \div 2)) % 2)

\* (key_bytes * ((n // len(key_bytes)) + 1))[:n], when key_bytes is shorter
ExtendKey(key_bytes, n) ==
    IF Len(key_bytes) < n
    THEN [i \in 1..n |-> key_bytes[((i - 1) % Len(key_bytes)) + 1]]
    ELSE key_bytes

\* bytes(a ^ b for a, b in zip(data, key_bytes))
XorZip(data, key_bytes) ==
    [i \in 1..Min2(Len(data), Len(key_bytes)) |-> XorByte(data[i], key_bytes[i])]

EncryptedData(ciphertext, algorithm, key_id, nonce) ==
    [ciphertext |-> ciphertext, algorithm |-> algorithm, key_id |-> key_id,
     nonce |-> nonce, quantum_signature |-> <<>>]

\* quantum_otp_encrypt and quantum_otp_decrypt (lines 92-121); an empty key
\* with a non-empty message divides by zero
quantum_otp_encrypt(message, final_key, key_id) ==
    IF final_key = <<>> /\ message # <<>> THEN [exc |-> "ZeroDivisionError"]
    ELSE [exc |-> "none",
          data |-> EncryptedData(XorZip(message, ExtendKey(final_key, Len(message))),
                                 "quantum_otp", key_id, <<>>)]

quantum_otp_decrypt(data, final_key) ==
    IF final_key = <<>> /\ data.ciphertext # <<>> THEN [exc |-> "ZeroDivisionError"]
    ELSE [exc |-> "none",
          plaintext |-> XorZip(data.ciphertext,
                               ExtendKey(final_key, Len(data.ciphertext)))]

\* _derive_aes_key and _derive_chacha_key: sha256(quantum_key + label)
DeriveKey(final_key, label) == <<"sha256", final_key, label>>

\* aes_quantum_encrypt (lines 123-145): the message is padded to the block
\* size with padding_len bytes of value padding_len
aes_quantum_encrypt(message, final_key, key_id, iv) ==
    LET padding_len == BlockSize - (Len(message) % BlockSize)
        padded_message == message \o [i \in 1..padding_len |-> padding_len]
    IN  [exc |-> "none",
         data |-> EncryptedData(<<"aes_cbc", DeriveKey(final_key, "AES"), iv,
                                  padded_message>>,
                                "aes_quantum", key_id, iv)]

\* aes_quantum_decrypt (lines 147-162): another key or nonce yields blocks
\* unrelated to the message
aes_quantum_decrypt(data, final_key) ==
    LET c == data.ciphertext
    IN  IF c[2] = DeriveKey(final_key, "AES") /\ c[3] = data.nonce
        THEN LET padded_plaintext == c[4]
                 padding_len == padded_plaintext[Len(padded_plaintext)]
             IN  [exc |-> "none",
                  plaintext |-> Take(padded_plaintext, Len(padded_plaintext) - padding_len)]
        ELSE [exc |-> "none", plaintext |-> <<"garbage">>]

\* chacha20_quantum_encrypt and chacha20_quantum_decrypt (lines 164-190)
chacha20_quantum_encrypt(message, final_key, key_id, nonce) ==
    [exc |-> "none",
     data |-> EncryptedData(<<"chacha20_poly1305", DeriveKey(final_key, "CHACHA20"),
                              nonce, message>>,
                            "chacha20_quantum", key_id, nonce)]

chacha20_quantum_decrypt(data, final_key) ==
    LET c == data.ciphertext
    IN  IF c[2] = DeriveKey(final_key, "CHACHA20") /\ c[3] = data.nonce
        THEN [exc |-> "none", plaintext |-> c[4]]
        ELSE [exc |-> "InvalidTag"]

\* _generate_quantum_signature: HMAC-SHA256 of the ciphertext
generate_quantum_signature(ciphertext, final_key) ==
    <<"hmac", DeriveKey(final_key, "SIGNATURE"), ciphertext>>

\* the part of encrypt_message after the key was generated (lines 224-243);
\* nonce is what secrets.token_bytes returns
encrypt_with_key(message, algorithm, final_key, key_id, nonce) ==
    LET r == IF algorithm = "quantum_otp"
                 THEN quantum_otp_encrypt(message, final_key, key_id)
             ELSE IF algorithm = "aes_quantum"
                 THEN aes_quantum_encrypt(message, final_key, key_id, nonce)
             ELSE chacha20_quantum_encrypt(message, final_key, key_id, nonce)
    IN  IF r.exc # "none" THEN r
        ELSE [exc |-> "none",
              data |-> [r.data EXCEPT !.quantum_signature =
                            generate_quantum_signature(r.data.ciphertext, final_key)]]

\* the part of decrypt_message after the key was found (lines 265-282)
decrypt_with_key(data, final_key) ==
    IF data.quantum_signature # <<>>
       /\ data.quantum_signature # generate_quantum_signature(data.ciphertext, final_key)
    THEN [exc |-> "ValueError"]
    ELSE IF data.algorithm = "quantum_otp" THEN quantum_otp_decrypt(data, final_key)
    ELSE IF data.algorithm = "aes_quantum" THEN aes_quantum_decrypt(data, final_key)
    ELSE chacha20_quantum_decrypt(data, final_key)

\* QuantumKey.final_key of a key of the manager's table: one byte per bit;
\* the model's keys carry no bits, their ids stand for them
FinalKey(key) == <<key.key_id % 2, 1>>

\* decrypt_message(encrypted_data, key_id) (lines 257-282)
decrypt_message(data, key_id) ==
    LET quantum_key == get_quantum_key(key_id)
    IN  IF quantum_key = None THEN [exc |-> "ValueError"]
        ELSE decrypt_with_key(data, FinalKey(quantum_key))

EncRet(op, exc, message, result) ==
    [op |-> op, exc |-> exc, message |-> message, result |-> result]

InitEnc == enc_ret = EncRet("none", "none", <<>>, None)

\* encrypt_message(message, alice_id, bob_id, algorithm) (lines 213-255):
\* generate_quantum_key starts a BB84 session for a 256-bit key
encrypt_message(message, alice, bob, algorithm, nonce, e, c) ==
    /\ start_bb84_session(alice, bob, GoodKeyLength, e, c)
    /\ enc_ret' =
         IF mg_ret'.exc # "none" THEN EncRet("encrypt_message", mg_ret'.exc, message, None)
         ELSE LET key == mg_ret'.found.quantum_key
                  r == encrypt_with_key(message, algorithm, FinalKey(key), key.key_id,
                                        nonce)
              IN  IF r.exc # "none" THEN EncRet("encrypt_message", r.exc, message, None)
                  ELSE EncRet("encrypt_message", "none", message, r.data)

\* messages in bytes (str.encode('utf-8') of characters below 128 gives
\* their code points), one of them longer than the key
Messages == {<<>>, <<1>>, <<3, 0>>, <<1, 2, 3>>, <<2, 2, 1, 0>>}
Nonces == {<<0>>, <<1>>}
\* encrypted data a caller may hold without having encrypted anything
ForeignData == EncryptedData(<<1>>, "quantum_otp", 1, <<>>)
\* the error rates the three attempts of a key generation measure
EncRates == {[i \in 1..3 |-> LowError], [i \in 1..3 |-> HighError]}

EncryptMessage ==
    /\ \E message \in Messages, algorithm \in Algorithms, nonce \in Nonces, e \in EncRates :
          encrypt_message(message, Alice, Bob, algorithm, nonce, e, MgCorrected)
    /\ UNCHANGED <<kcVars, fnVars, ccVars, kqVars, idVars, evVars, gfVars>>

DecryptMessage ==
    /\ \E data \in {ForeignData} \cup (IF enc_ret.result = None THEN {} ELSE {enc_ret.result}) :
          LET r == decrypt_message(data, data.key_id)
          IN  enc_ret' = EncRet("decrypt_message", r.exc, <<>>,
                                IF r.exc = "none" THEN r.plaintext ELSE None)
    /\ UNCHANGED <<now, rlVars, smVars, kcVars, bbVars, mgVars, fnVars, ccVars, kqVars,
                   idVars, evVars, gfVars>>

(***************************************************************************)
(* The key_id each generation path of BB84Protocol passes to QuantumKey.   *)
(* The clock counts milliseconds here: int(time.time() * 1000).            *)
(***************************************************************************)
\* str(uuid.uuid4()): a value no earlier call drew
Uuid4(calls) ==
    <<"uuid4", Cardinality({i \in 1..Len(calls) : calls[i].key_id[1] = "uuid4"}) + 1>>

\* f"{prefix}_{int(time.time() * 1000)}"
StampedId(prefix, t) == <<prefix, t>>

\* one QuantumKey(...) call: the path making it, its key_id argument, and
\* whether the constructor accepts the keywords
QkCall(path, key_id, keywords) ==
    [path |-> path, key_id |-> key_id, exc |-> QuantumKeyInit(keywords)]

\* _generate_enhanced_security_key (lines 1238-1254)
generate_enhanced_security_key(calls) ==
    QkCall("enhanced_security", Uuid4(calls), QuantumKeyFields)

\* _generate_key_attempt (lines 2157-2167)
protocol_key(calls) == QkCall("protocol", Uuid4(calls), LegacyKeywords)

\* _qiskit_fast_generation, _cirq_fast_generation, _pennylane_fast_generation
\* (lines 1347-1356, 1388-1397, 1432-1441)
fast_generation(backend, t) ==
    QkCall(backend, StampedId(backend \o "_fast", t), LegacyKeywords)

\* _emergency_key_generation (lines 1474-1483)
emergency_key_generation(t) ==
    QkCall("emergency", StampedId("emergency", t), LegacyKeywords)

InitID == qk_calls = <<>>

InitEV ==
    /\ ev_access = <<>>
    /\ ev_evicted = {}

\* no get_key_fast call made yet
InitGF == gf_log = <<>>

IdFrame ==
    UNCHANGED <<rlVars, smVars, kcVars, bbVars, mgVars, fnVars, ccVars, kqVars, encVars,
                evVars, gfVars>>

EnhancedSecurityKey ==
    /\ Len(qk_calls) < MaxKeyCalls
    /\ qk_calls' = Append(qk_calls, generate_enhanced_security_key(qk_calls))
    /\ UNCHANGED now
    /\ IdFrame

ProtocolKey ==
    /\ Len(qk_calls) < MaxKeyCalls
    /\ qk_calls' = Append(qk_calls, protocol_key(qk_calls))
    /\ UNCHANGED now
    /\ IdFrame

FastGeneration ==
    /\ Len(qk_calls) < MaxKeyCalls
    /\ \E i \in 1..3 : qk_calls' = Append(qk_calls, fast_generation(Backends[i], now))
    /\ UNCHANGED now
    /\ IdFrame

EmergencyKeyGeneration ==
    /\ Len(qk_calls) < MaxKeyCalls
    /\ qk_calls' = Append(qk_calls, emergency_key_generation(now))
    /\ UNCHANGED now
    /\ IdFrame

TickID ==
    /\ now < MaxTimeID
    /\ now' = now + 1
    /\ UNCHANGED qk_calls
    /\ IdFrame

\* keys and calls for the ciphers on their own
CipherInputs ==
    [op : {"cipher"}, algorithm : Algorithms, message : Messages,
     final_key : {<<>>, <<1>>, <<0, 1>>}, nonce : Nonces]

\* encryption with a given key, then decryption of the result with it
(***************************************************************************)
(* SARG04Protocol: measurement, sifting and the security check             *)
(***************************************************************************)
\* SARG04Protocol.__init__: qber_threshold with and without simulation_mode
SargSimQber == 4500
SargRealQber == 1500
\* the confidence boost of simulation mode and the confidence of the
\* substituted bit of the except branch
SargBoost == 3000
SargFallbackConfidence == 5000

AbsVal(r) == IF r < 0 THEN 0 - r ELSE r

\* bob_sarg_measurement for one pulse: outcome tells whether
\* measure_sarg_state raised and, if not, the expectation value it returned;
\* rand is the bit secrets.randbits(1) draws in the except branch
sarg_measure(outcome, sim, rand) ==
    IF outcome.raised THEN <<rand, SargFallbackConfidence>>
    ELSE <<IF outcome.result < 0 THEN 1 ELSE 0,
           IF sim THEN Min2(Scale, AbsVal(outcome.result) + SargBoost)
                  ELSE AbsVal(outcome.result)>>

bob_sarg_measurement(outcomes, sim, rands) ==
    [i \in 1..Len(outcomes) |-> sarg_measure(outcomes[i], sim, rands[i])]

\* the keywords SARG04Protocol.generate_key passes to QuantumKey
SargKeywords == LegacyKeywords \cup {"sarg_efficiency"}

\* SARG04Protocol.generate_key from the sifting on (lines 2502-2545), with
\* the bits, bases and measurement outcomes of the raw pulses
sarg_generate_key(alice_bits, alice_bases, bob_bases, outcomes, sim, rands) ==
    LET bob_measurements == bob_sarg_measurement(outcomes, sim, rands)
        n == Len(bob_measurements)
        matching_indices == SelectSeq([i \in 1..n |-> i - 1],
                                LAMBDA i : /\ alice_bases[i + 1] = bob_bases[i + 1]
                                           /\ bob_measurements[i + 1][2] > 0)
        sifted_key == [k \in 1..Len(matching_indices) |->
                          bob_measurements[matching_indices[k] + 1][1]]
        alice_sifted == [k \in 1..Len(matching_indices) |->
                            alice_bits[matching_indices[k] + 1]]
        errors == Cardinality({k \in 1..Len(alice_sifted) : alice_sifted[k] # sifted_key[k]})
        error_rate == IF alice_sifted = <<>> THEN Scale ELSE Rate(errors, Len(alice_sifted))
        threshold == IF sim THEN SargSimQber ELSE SargRealQber
    IN  [exc |-> IF error_rate > threshold THEN "EavesdropDetected"
                 ELSE QuantumKeyInit(SargKeywords),
         bob_measurements |-> bob_measurements,
         matching_indices |-> matching_indices,
         sifted_key |-> sifted_key,
         error_rate |-> error_rate]

MaxPulses == 2
SargOutcomes == {[raised |-> TRUE, result |-> 0]} \cup
                [raised : {FALSE}, result : {0 - Scale, 0, Scale}]

Sarg04Inputs ==
    UNION {[op : {"sarg04"}, alice_bits : BitSeqs(n), alice_bases : BitSeqs(n),
            bob_bases : BitSeqs(n), outcomes : [1..n -> SargOutcomes], sim : BOOLEAN] :
           n \in 1..MaxPulses}

\* one call of SARG04Protocol.generate_key
Sarg04GenerateKey ==
    /\ fn_ret = NoCall
    /\ fn_in.op = "sarg04"
    /\ \E rands \in BitSeqs(Len(fn_in.outcomes)) :
          fn_ret' = [op |-> "sarg04",
                     ret |-> sarg_generate_key(fn_in.alice_bits, fn_in.alice_bases,
                                 fn_in.bob_bases, fn_in.outcomes, fn_in.sim, rands)]
    /\ UNCHANGED <<now, rlVars, smVars, kcVars, bbVars, mgVars, fn_in, ccVars, xtVars>>

(***************************************************************************)
(* EnhancedBB84Protocol (BB84 with decoy states): decoy analysis, sifting  *)
(* and the security check                                                  *)
(***************************************************************************)
\* EnhancedBB84Protocol.__init__: the thresholds with and without
\* simulation_mode, and the decoy intensity
DecoySimQber == 4000
DecoySimSecurity == 1000
DecoyRealQber == 1100
DecoyRealSecurity == 5000
decoy_intensity == 1000
\* analyze_decoy_states: the default single-photon rate, the floors of the
\* signal and decoy gains, the default efficiency
DefaultPhotonRate == 1000
MinSignalGain == 1000
MinDecoyGain == 500
DefaultEfficiency == 7000

\* np.mean(detections) if detections else 0
MeanOrZero(bits) == IF bits = <<>> THEN 0 ELSE Rate(SumSeq(bits), Len(bits))

\* analyze_decoy_states(...)["security_parameter"]
analyze_decoy_states(signal_detections, decoy_detections, vacuum_detections, sim) ==
    LET signal_rate == MeanOrZero(signal_detections)
        decoy_rate == MeanOrZero(decoy_detections)
        vacuum_rate == MeanOrZero(vacuum_detections)
        photon0 == Max2(0, ((decoy_rate - vacuum_rate) * Scale) \div decoy_intensity)
        single_photon_rate ==
            IF decoy_rate > vacuum_rate /\ decoy_intensity > 0
            THEN (IF sim THEN Min2(Scale, Mul(photon0, 12, 10)) ELSE photon0)
            ELSE DefaultPhotonRate
        gain_signal == Max2(signal_rate, MinSignalGain)
        gain_decoy == Max2(decoy_rate, MinDecoyGain)
        efficiency0 == Min2(Scale, (gain_signal * Scale) \div gain_decoy)
        error_correction_efficiency ==
            IF gain_decoy > 0
            THEN (IF sim THEN Min2(Scale, Mul(efficiency0, 11, 10)) ELSE efficiency0)
            ELSE DefaultEfficiency
        base_security == Max2(0, Scale - vacuum_rate * 5)
        photon_security == Min2(Scale, single_photon_rate * 2)
    IN  (base_security + photon_security + error_correction_efficiency) \div 3

\* the measurements of the pulses tagged state_type whose measurement did
\* not raise, in pulse order
Detections(types, measurements, raised, state_type) ==
    LET idx == SelectSeq([i \in 1..Len(types) |-> i],
                         LAMBDA i : types[i] = state_type /\ ~raised)
    IN  [k \in 1..Len(idx) |-> measurements[idx[k]]]

\* the security check of EnhancedBB84Protocol.generate_key (line 2369)
QberCompromised(error_rate, qber_thr, security_parameter, security_thr) ==
    error_rate > qber_thr
SecurityCompromised(error_rate, qber_thr, security_parameter, security_thr) ==
    error_rate > qber_thr \/ security_parameter < security_thr

\* the keywords EnhancedBB84Protocol.generate_key passes to QuantumKey
DecoyKeywords == LegacyKeywords \cup {"decoy_analysis"}

\* EnhancedBB84Protocol.generate_key from the measurement loop on (lines
\* 2330-2391): types are the tags of the pulses, measurements what
\* bob_measurements holds, raised whether measure_qubit raises (the bit is
\* then the substituted random one and is in no detection list)
decoy_generate_key(key_length, alice_bits, alice_bases, bob_bases, types, measurements, raised, sim) ==
    LET security_parameter ==
            analyze_decoy_states(Detections(types, measurements, raised, "signal"),
                                 Detections(types, measurements, raised, "decoy"),
                                 Detections(types, measurements, raised, "vacuum"), sim)
        matching_indices == SelectSeq([i \in 1..Len(types) |-> i - 1],
                                LAMBDA i : /\ alice_bases[i + 1] = bob_bases[i + 1]
                                           /\ types[i + 1] = "signal")
        sifted_key == [k \in 1..Len(matching_indices) |->
                          measurements[matching_indices[k] + 1]]
        alice_sifted == [k \in 1..Len(matching_indices) |->
                            alice_bits[matching_indices[k] + 1]]
        errors == Cardinality({k \in 1..Len(alice_sifted) : alice_sifted[k] # sifted_key[k]})
        error_rate == IF alice_sifted = <<>> THEN Scale ELSE Rate(errors, Len(alice_sifted))
        qber_thr == IF sim THEN DecoySimQber ELSE DecoyRealQber
        security_thr == IF sim THEN DecoySimSecurity ELSE DecoyRealSecurity
        amplified == enhanced_privacy_amplification(sifted_key, key_length \div 8,
                                                    security_parameter)
    IN  [exc |-> IF SecurityCompromised(error_rate, qber_thr, security_parameter,
                                            security_thr)
                     THEN "EavesdropDetected"
                 ELSE IF amplified.exc # "none" THEN amplified.exc
                 ELSE QuantumKeyInit(DecoyKeywords),
         key |-> FALSE,
         security_parameter |-> security_parameter,
         matching_indices |-> matching_indices,
         sifted_key |-> sifted_key,
         error_rate |-> error_rate]

StateTypes == {"signal", "decoy", "vacuum"}

DecoyInputs ==
    UNION {[op : {"decoy"}, alice_bits : BitSeqs(n), alice_bases : BitSeqs(n),
            bob_bases : BitSeqs(n), types : [1..n -> StateTypes],
            measurements : BitSeqs(n), raised : BOOLEAN, sim : BOOLEAN] :
           n \in 1..MaxPulses}

\* one call of EnhancedBB84Protocol.generate_key
DecoyGenerateKey ==
    /\ fn_ret = NoCall
    /\ fn_in.op = "decoy"
    /\ fn_ret' = [op |-> "decoy",
                  ret |-> decoy_generate_key(MinKeyLength, fn_in.alice_bits,
                              fn_in.alice_bases, fn_in.bob_bases, fn_in.types,
                              fn_in.measurements, fn_in.raised, fn_in.sim)]
    /\ UNCHANGED <<now, rlVars, smVars, kcVars, bbVars, mgVars, fn_in, ccVars, xtVars>>

(***************************************************************************)
(* E91Protocol: the CHSH test and the security check                       *)
(***************************************************************************)
\* E91Protocol.__init__: bell_threshold with and without simulation_mode
BellSimThreshold == 20000
BellRealThreshold == 28000
\* chsh_bell_test: the correlation of a basis pair that no measurement used
DefaultCorrelation == 5000
MaxChsh == 40000

\* E91Protocol.__init__ reads its simulation_mode argument and never
\* assigns self.simulation_mode, so hasattr(self, 'simulation_mode') is false
E91HasSimulationMode == FALSE

\* chsh_bell_test: the mean of (-1) ** (a_r ^ b_r) over the pairs measured
\* in bases (a_basis, b_basis)
Correlation(alice_results, bob_results, alice_bases, bob_bases, a_basis, b_basis) ==
    LET pairs == {i \in 1..Len(alice_bases) :
                     alice_bases[i] = a_basis /\ bob_bases[i] = b_basis}
        equal == Cardinality({i \in pairs : alice_results[i] = bob_results[i]})
        count == Cardinality(pairs)
        correlation_sum == equal - (count - equal)
    IN  IF count > 0
        THEN (IF correlation_sum < 0
              THEN 0 - (((0 - correlation_sum) * Scale) \div count)
              ELSE (correlation_sum * Scale) \div count)
        ELSE DefaultCorrelation

\* E91Protocol.chsh_bell_test(alice_results, bob_results, alice_bases, bob_bases)
chsh_bell_test(alice_results, bob_results, alice_bases, bob_bases, sim) ==
    LET C(a, b) == Correlation(alice_results, bob_results, alice_bases, bob_bases, a, b)
        S == AbsVal(C(0, 0) - C(0, 2) + C(1, 0) + C(1, 2))
    IN  IF E91HasSimulationMode /\ sim /\ S > 0 THEN Min2(MaxChsh, Mul(S, 15, 10)) ELSE S

\* the security check of E91Protocol.generate_key (line 2690)
BellAndQberViolated(chsh_value, bell_threshold, error_rate) ==
    chsh_value < bell_threshold /\ error_rate > 0
BellViolated(chsh_value, bell_threshold, error_rate) == chsh_value < bell_threshold

\* E91Protocol.generate_key from the CHSH test on (lines 2682-2722), for a
\* protocol object built with simulation_mode = sim; error_rate is what
\* step 6 computes from the same measurements
e91_generate_key(alice_results, bob_results, alice_bases, bob_bases, sim) ==
    LET chsh_value == chsh_bell_test(alice_results, bob_results, alice_bases,
                                     bob_bases, sim)
        bell_threshold == IF sim THEN BellSimThreshold ELSE BellRealThreshold
        same == {i \in 1..Len(alice_bases) : alice_bases[i] = bob_bases[i]}
        errors == Cardinality({i \in same : alice_results[i] # bob_results[i]})
        error_rate == IF same = {} THEN Scale ELSE Rate(errors, Cardinality(same))
    IN  [exc |-> IF BellViolated(chsh_value, bell_threshold, error_rate)
                     THEN "EavesdropDetected"
                 ELSE QuantumKeyInit(LegacyKeywords),
         key |-> FALSE,
         chsh_value |-> chsh_value,
         bell_threshold |-> bell_threshold,
         sifted |-> Cardinality(same),
         error_rate |-> error_rate]

E91Bases == 0..2

E91Inputs ==
    UNION {[op : {"e91"}, alice_results : BitSeqs(n), bob_results : BitSeqs(n),
            alice_bases : [1..n -> E91Bases], bob_bases : [1..n -> E91Bases],
            sim : BOOLEAN] : n \in 1..MaxPulses}

\* one call of E91Protocol.generate_key
E91GenerateKey ==
    /\ fn_ret = NoCall
    /\ fn_in.op = "e91"
    /\ fn_ret' = [op |-> "e91",
                  ret |-> e91_generate_key(fn_in.alice_results, fn_in.bob_results,
                              fn_in.alice_bases, fn_in.bob_bases, fn_in.sim)]
    /\ UNCHANGED <<now, rlVars, smVars, kcVars, bbVars, mgVars, fn_in, ccVars, xtVars>>

CipherRoundTrip ==
    /\ fn_ret = NoCall
    /\ fn_in.op = "cipher"
    /\ LET enc == encrypt_with_key(fn_in.message, fn_in.algorithm, fn_in.final_key, 1,
                                   fn_in.nonce)
       IN  fn_ret' = [op |-> "cipher",
                      ret |-> IF enc.exc # "none" THEN enc
                              ELSE decrypt_with_key(enc.data, fn_in.final_key)]
    /\ UNCHANGED <<now, rlVars, smVars, kcVars, bbVars, mgVars, fn_in, ccVars, xtVars>>

\* one call of _generate_key_ultra_fast
UltraFastKey ==
    /\ fn_ret = NoCall
    /\ fn_in.op = "ultra_fast"
    /\ fn_ret' =
         [op |-> "ultra_fast",
          ret |-> ultra_fast_key(fn_in.key_length, security_boost_mode,
                      (calculate_optimal_qubits(fn_in.key_length, security_boost_mode)
                           * fn_in.quarters1) \div 4,
                      fn_in.e1,
                      (((fn_in.key_length * 25) \div 10) * fn_in.quarters2) \div 4,
                      fn_in.e2, error_rate_history, qber_threshold)]
    /\ UNCHANGED <<now, rlVars, smVars, kcVars, bbVars, mgVars, fn_in, ccVars, xtVars>>

\* all objects after construction, for one configuration
Objects(fast, sim, qiskit, cirq) ==
    /\ now = 0
    /\ InitRL
    /\ InitSM
    /\ InitKC(fast)
    /\ InitBB(sim, qiskit, cirq)
    /\ InitMG
    /\ InitCC
    /\ InitKQ
    /\ InitID
    /\ InitEnc
    /\ InitEV
    /\ InitGF

\* a QKDManager built at time 0 on which k generate_key calls with an
\* empty alice_id were made at time t: each raised QKDError in
\* _validate_security_requirements before the security check, counted one
\* blocked request and logged one generation_failed event
AfterMalformedCalls(k, t) ==
    /\ now = t
    /\ InitRL
    /\ InitSM
    /\ InitKC(TRUE)
    /\ InitBB(TRUE, TRUE, TRUE)
    /\ qkd_sessions = <<>>
    /\ generated_keys = <<>>
    /\ security_events = [i \in 1..k |-> [type |-> "generation_failed", timestamp |-> t]]
    /\ last_security_check = 0
    /\ performance_metrics = [total_requests |-> 0, blocked_requests |-> k,
                              security_blocks |-> 0]
    /\ mg_next_id = 1
    /\ mg_ret = MgRet("generate_key", "QKDError", FALSE, None)
    /\ InitCC
    /\ InitKQ
    /\ InitID
    /\ InitEnc
    /\ InitEV
    /\ InitGF
    /\ fn_in = NoCall
    /\ fn_ret = NoCall

\* ThreatHigh failed calls in the last hour, and a security check that is due
InitTL == AfterMalformedCalls(ThreatHigh, security_check_interval + 1)

\* the objects, and no call of a pure function under way
Configured(fast, sim, qiskit, cirq) ==
    /\ Objects(fast, sim, qiskit, cirq)
    /\ fn_in = NoCall
    /\ fn_ret = NoCall

\* the default objects, and one call of a pure function about to be made
InitFN ==
    /\ Objects(TRUE, TRUE, TRUE, TRUE)
    /\ fn_ret = NoCall
    /\ \/ fn_in \in SiftKeyInputs
       \/ fn_in \in SiftQuantumKeyInputs
       \/ fn_in \in EstimateInputs
       \/ fn_in \in AdaptiveQberInputs
       \/ fn_in \in AmplificationInputs
       \/ fn_in \in SecurityLevelInputs
       \/ fn_in \in UltraFastInputs
       \/ fn_in \in CipherInputs
       \/ fn_in \in Sarg04Inputs
       \/ fn_in \in DecoyInputs
       \/ fn_in \in E91Inputs

\* the defaults: QKDManager() runs its protocols in simulation mode
Init == Configured(TRUE, TRUE, TRUE, TRUE)

\* the cache with fast_lookup_mode on (the default) and off, so that the
\* slow path of get_cached_key is reached
InitCache == \E fast \in BOOLEAN : Configured(fast, TRUE, TRUE, TRUE)

\* BB84Protocol in both modes, with every combination of installed backends
InitBB84 == \E sim, qiskit, cirq \in BOOLEAN : Configured(TRUE, sim, qiskit, cirq)

NextRL == CheckRateLimit \/ TickRL

NextSM == CreateSession \/ ValidateSession \/ RecordKeyGeneration \/ TickSM

NextKC == GetCachedKey \/ CacheKey \/ TickKC

NextBB == GenerateKey \/ GenerateKeyUltraFast \/ UpdateThreatLevel \/ SelectSecureProtocol

NextMG ==
    ManagerGenerateKey \/ StartBB84Session \/ TerminateSession \/ TickMG

NextEnc ==
    EncryptMessage \/ DecryptMessage \/ StartBB84Session \/ TerminateSession
        \/ TickMG

SpecEnc == Init /\ [][NextEnc]_vars

SpecMG == Init /\ [][NextMG]_vars

NextTL == ManagerGenerateKeyTL

SpecTL == InitTL /\ [][NextTL]_vars

NextFN ==
    SiftKey \/ EstimateErrorRate \/ PrivacyAmplification \/ SecurityLevel
        \/ UltraFastKey \/ CipherRoundTrip \/ Sarg04GenerateKey \/ DecoyGenerateKey
        \/ E91GenerateKey

SpecFN == InitFN /\ [][NextFN]_vars

NextCC == Enter \/ CheckGlobal \/ CheckIp \/ CheckUser \/ Record \/ TickCC

SpecCC == Init /\ [][NextCC]_vars

NextKQ ==
    GetEnter \/ GetCheck \/ GetPop \/ GetEmpty \/ GetDel \/ PutEnter \/ PutInit
        \/ PutAppend

SpecKQ == Init /\ [][NextKQ]_vars

NextID ==
    EnhancedSecurityKey \/ ProtocolKey \/ FastGeneration \/ EmergencyKeyGeneration
        \/ TickID

SpecID == Init /\ [][NextID]_vars

NextEH == GenerateKeyNoisy \/ GenerateKeyUltraFastNoisy

SpecEH == Init /\ [][NextEH]_vars

SpecBB == InitBB84 /\ [][NextBB]_vars

SpecKC == InitCache /\ [][NextKC]_vars

SpecSM == Init /\ [][NextSM]_vars

SpecRL == Init /\ [][NextRL]_vars

(***************************************************************************)
(* Claims about SecurityRateLimiter (checked under SpecRL)                 *)
(***************************************************************************)
\* number of accepted calls among the first n calls of the log
AcceptedAmong(n) == Cardinality({j \in 1..n : rl_log[j].ok})

\* the log is a burst of one user: limit+1 calls, all by u, all inside one
\* per-minute window, and at no call could another cap have been reached
SingleUserBurst(u) ==
    /\ Len(rl_log) = user_limit_per_minute + 1
    /\ \A i \in DOMAIN rl_log : rl_log[i].user = u
    /\ now - rl_log[1].t < WinMinute
    /\ \A i \in DOMAIN rl_log :
          /\ AcceptedAmong(i - 1) < ip_limit_per_minute
          /\ AcceptedAmong(i - 1) < global_limit_per_second
          /\ AcceptedAmong(i - 1) < user_limit_per_hour

\* C1: starting from an empty limiter, limit+1 requests of a single user
\* inside one per-minute window (no other cap reached) give exactly `limit`
\* acceptances followed by exactly one rejection, the last call.
C1_BurstRejectsOnlyLast ==
    \A u \in Users :
        SingleUserBurst(u) =>
            /\ \A i \in 1..user_limit_per_minute : rl_log[i].ok
            /\ ~rl_log[user_limit_per_minute + 1].ok

C1_Witness ==
    /\ SingleUserBurst("u1")
    /\ rl_log[Len(rl_log)].why = "user_minute"

\* accepted calls that satisfy P and fall in the window [a, a + w)
AcceptedIn(P(_), a, w) ==
    Cardinality({i \in DOMAIN rl_log :
                    /\ rl_log[i].ok
                    /\ P(rl_log[i])
                    /\ a <= rl_log[i].t
                    /\ rl_log[i].t < a + w})

\* C2: in every reachable state the accepted requests respect every cap in
\* every window: per user and minute, per user and hour, per IP and minute,
\* and globally per second.
C2_CapsRespected ==
    \A a \in 0..MaxTimeRL :
        /\ \A u \in Users :
              /\ AcceptedIn(LAMBDA e : e.user = u, a, WinMinute) <= user_limit_per_minute
              /\ AcceptedIn(LAMBDA e : e.user = u, a, WinHour) <= user_limit_per_hour
        /\ \A ip \in IPs :
              AcceptedIn(LAMBDA e : e.ip = ip, a, WinMinute) <= ip_limit_per_minute
        /\ AcceptedIn(LAMBDA e : TRUE, a, WinSecond) <= global_limit_per_second

\* the per-hour cap is met across a per-minute window boundary and a further
\* request of that user is turned away by it
C2_Witness ==
    \E i \in DOMAIN rl_log :
        /\ rl_log[i].why = "user_hour"
        /\ AcceptedIn(LAMBDA e : e.user = rl_log[i].user, 0, WinHour) = user_limit_per_hour

(***************************************************************************)
(* Claims about SecuritySessionManager (checked under SpecSM)              *)
(***************************************************************************)
\* the stored sessions that user u created (u is their alice_id)
CreatedBy(as, u) == {x \in DOMAIN as : as[x].alice_id = u}

\* C3: when a user who has max_sessions_per_user stored sessions, none of
\* them timed out, creates one more, exactly max_sessions_per_user of the
\* user's sessions are alive afterwards and the new session is one of them.
C3_CapKeepsNewest ==
    [][\A a \in Creators, b \in Peers :
          ( /\ create_session(a, b)
            /\ Cardinality(CreatedBy(active_sessions, a)) = max_sessions_per_user
            /\ \A x \in CreatedBy(active_sessions, a) :
                  now - active_sessions[x].last_activity <= session_timeout )
          => /\ Cardinality(CreatedBy(active_sessions', a)) = max_sessions_per_user
             /\ sm_next_id \in CreatedBy(active_sessions', a)]_vars

\* max_sessions_per_user + 1 sessions were created at time 0 (nothing can
\* have timed out), all by u1, and the first one is gone
C3_Witness ==
    /\ now = 0
    /\ sm_ret.op = "create"
    /\ sm_next_id = max_sessions_per_user + 2
    /\ DOMAIN active_sessions = 2..(max_sessions_per_user + 1)
    /\ CreatedBy(active_sessions, "u1") = 2..(max_sessions_per_user + 1)

\* C4: validate_session fails closed and never raises: it returns false for
\* an unknown id and for a session idle for more than session_timeout; for a
\* live session and a user that is neither party it appends an
\* 'unauthorized_access' event to the session and returns false.
C4_ValidateFailsClosed ==
    [][\A sid \in SessionIds, u \in AllUsers :
          validate_session(sid, u) =>
            /\ sm_ret'.exc = "none"
            /\ sid \notin DOMAIN active_sessions => ~sm_ret'.result
            /\ ( /\ sid \in DOMAIN active_sessions
                 /\ now - active_sessions[sid].last_activity > session_timeout )
               => ~sm_ret'.result
            /\ ( /\ sid \in DOMAIN active_sessions
                 /\ now - active_sessions[sid].last_activity <= session_timeout
                 /\ active_sessions[sid].alice_id # u
                 /\ active_sessions[sid].bob_id # u )
               => /\ ~sm_ret'.result
                  /\ sid \in DOMAIN active_sessions'
                  /\ active_sessions'[sid].security_events =
                        Append(active_sessions[sid].security_events,
                               [type |-> "unauthorized_access", user_id |-> u])]_vars

\* a stranger has just been turned away from a live session
C4_Witness ==
    /\ sm_ret = Ret("validate", FALSE, "none")
    /\ \E sid \in DOMAIN active_sessions :
          LET ev == active_sessions[sid].security_events
          IN  /\ Len(ev) > 0
              /\ ev[Len(ev)].user_id \notin
                    {active_sessions[sid].alice_id, active_sessions[sid].bob_id}

\* C9: a session idle for more than session_timeout is dead: the next
\* operation either purges it or leaves its counters and its last_activity
\* as they are.
C9_ExpiredStaysDead ==
    [][\A sid \in DOMAIN active_sessions :
          now - active_sessions[sid].last_activity > session_timeout
          => \/ sid \notin DOMAIN active_sessions'
             \/ /\ active_sessions'[sid].key_count = active_sessions[sid].key_count
                /\ active_sessions'[sid].total_data = active_sessions[sid].total_data
                /\ active_sessions'[sid].last_activity = active_sessions[sid].last_activity]_vars

\* C10: every user holds at most max_sessions_per_user live sessions, a user
\* holding the sessions validate_session accepts it for (alice_id or bob_id).
C10_PerUserCap ==
    \A u \in AllUsers :
        Cardinality({x \in DOMAIN active_sessions :
                        /\ now - active_sessions[x].last_activity <= session_timeout
                        /\ \/ active_sessions[x].alice_id = u
                           \/ active_sessions[x].bob_id = u})
            <= max_sessions_per_user

\* C5: when each key object is put once, get_cached_key never returns the
\* same key twice: the ids it has returned so far are pairwise distinct.
C5_NoKeyDispensedTwice ==
    \A i, j \in 1..Len(kc_dispensed) :
        i # j => kc_dispensed[i] # kc_dispensed[j]

\* two keys have been dispensed, the last call returned one of them, and
\* other keys are still queued
C5_Witness ==
    /\ Len(kc_dispensed) >= 2
    /\ kc_ret.op = "get"
    /\ kc_ret.key.id = kc_dispensed[Len(kc_dispensed)]
    /\ \E q \in DOMAIN key_cache : key_cache[q] # <<>>

\* C6: a key returned on the slow (TTL-checked) path of get_cached_key was
\* put into the cache less than ttl_seconds before the call.
C6_SlowPathServesFresh ==
    [][\A q \in CacheKeys :
          (get_cached_key(q) /\ kc_ret'.path = "slow")
              => now - kc_ret'.key.put_at < ttl_seconds]_vars

\* the slow path returned a key that had been appended to a queue which
\* already existed: the only queue ever created is older than the key
C6_Witness ==
    /\ ~fast_lookup_mode
    /\ kc_ret.op = "get"
    /\ kc_ret.path = "slow"
    /\ \E q \in CacheKeys :
          /\ DOMAIN creation_times = {q}
          /\ creation_times[q] < kc_ret.key.put_at

\* C7: every threshold an eavesdrop decision of the last BB84 call compared
\* the error rate against lies between min_qber_threshold and
\* max_qber_threshold.
C7_ThresholdWithinBounds ==
    \A i \in 1..Len(bb_ret.thresholds) :
        /\ bb_ret.thresholds[i] >= min_qber_threshold
        /\ bb_ret.thresholds[i] <= max_qber_threshold

\* C8: a generate_key call all of whose attempts measure an error rate above
\* max_qber_threshold raises EavesdropDetected and returns no key.
C8_HighErrorRaisesEavesdrop ==
    [][\A e \in [1..3 -> ErrorRates], c \in [1..3 -> CorrectedRates] :
          (generate_key(e, c) /\ \A i \in 1..3 : e[i] > max_qber_threshold)
              => (bb_ret'.exc = "EavesdropDetected" /\ ~bb_ret'.key)]_vars

(***************************************************************************)
(* Further claims about SecurityRateLimiter (checked under SpecRL)         *)
(***************************************************************************)
\* the timestamps of list lst that lie inside the window of length w at t
InWindow(lst, t, w) == SelectSeq(lst, LAMBDA x : t - x < w)

\* the last check_rate_limit call returned False
LastRejected(log) == log # <<>> /\ ~log[Len(log)].ok

\* C11 as stated: a check_rate_limit call that returns False leaves the
\* stored user, IP and global collections exactly as they were.
C11_RejectChangesNothing ==
    [][\A u \in Users, ip \in IPs :
          (check_rate_limit(u, ip) /\ LastRejected(rl_log'))
              => UNCHANGED <<user_requests, ip_requests, global_requests>>]_vars

\* C11 amended: a check_rate_limit call that returns False leaves every
\* live window as it was (per user the last hour, per IP the last minute,
\* globally the last second): it records no timestamp in any scope and
\* drops none that still counts; it may drop expired timestamps and create
\* empty lists.
C11_RejectKeepsWindows ==
    [][\A u \in Users, ip \in IPs :
          (check_rate_limit(u, ip) /\ LastRejected(rl_log'))
              => /\ \A x \in Users :
                       InWindow(Get(user_requests', x, <<>>), now, WinHour)
                           = InWindow(Get(user_requests, x, <<>>), now, WinHour)
                 /\ \A y \in IPs :
                       InWindow(Get(ip_requests', y, <<>>), now, WinMinute)
                           = InWindow(Get(ip_requests, y, <<>>), now, WinMinute)
                 /\ InWindow(global_requests', now, WinSecond)
                       = InWindow(global_requests, now, WinSecond)]_vars

\* a call was rejected by the per-IP cap while the global list still held
\* timestamps older than a second, which that call dropped
C11_Witness ==
    /\ LastRejected(rl_log)
    /\ rl_log[Len(rl_log)].why = "ip"
    /\ rl_log[Len(rl_log)].t = now
    /\ \E i \in DOMAIN rl_log : rl_log[i].ok /\ now - rl_log[i].t >= WinSecond
    /\ Len(global_requests) < Cardinality({i \in DOMAIN rl_log : rl_log[i].ok})

(***************************************************************************)
(* Further claims about HighPerformanceKeyCache (checked under SpecKC)     *)
(***************************************************************************)
\* C12: keys of one queue are dispensed in the order they were put: a
\* get_cached_key call that returns a key returns the one put earliest among
\* the keys its queue holds (ids count the puts), so no key overtakes a key
\* put before it on the same queue.
C12_DispensedInPutOrder ==
    [][\A q \in CacheKeys :
          (get_cached_key(q) /\ kc_ret'.key # NoKey)
              => /\ q \in DOMAIN key_cache
                 /\ \A i \in 1..Len(key_cache[q]) :
                       kc_ret'.key.id <= key_cache[q][i].id]_vars

\* keys 1 and 2 were queued together on the only queue ever created (key 2
\* joined it after its creation, no cleanup ran) and came out as 1, then 2
C12_Witness ==
    /\ kc_dispensed = <<1, 2>>
    /\ kc_ret.op = "get"
    /\ kc_ret.key.id = 2
    /\ kc_last_cleanup = 0
    /\ \E q \in CacheKeys :
          /\ DOMAIN creation_times = {q}
          /\ creation_times[q] < kc_ret.key.put_at

(***************************************************************************)
(* Claims about QKDManager (checked under SpecMG)                          *)
(***************************************************************************)

WellFormedId(s) ==
    s # <<>> /\ Len(s) <= MaxIdLen /\ \A i \in 1..Len(s) : s[i] \in SafeChars
DottedQuad(s) ==
    \E i \in DottedGroupsEnds(s, 1, 3) : Len(s) + 1 \in DigitRunEnds(s, i)
Malformed(r) ==
    \/ ~WellFormedId(r.alice)
    \/ ~WellFormedId(r.bob)
    \/ r.key_length < MinKeyLength
    \/ r.key_length > MaxKeyLength
    \/ ~(DottedQuad(r.ip) \/ r.ip = Loopback)

\* C14: generate_key on a malformed request raises QKDError and leaves the
\* rate-limit windows, the session tables, the protocol object and the
\* stored keys as they were.
C14_MalformedRejectedFirst ==
    [][\A r \in Requests, sid \in SessionIdArgs, e \in MgRates :
          (mg_generate_key(r.alice, r.bob, r.key_length, r.ip, sid, e, MgCorrected)
             /\ Malformed(r))
          => /\ mg_ret'.exc = "QKDError"
             /\ UNCHANGED <<user_requests, ip_requests, global_requests, rl_log,
                            active_sessions, user_sessions, sm_next_id,
                            current_backend, qber_threshold, success_history,
                            error_rate_history, bb_ret, generated_keys>>]_vars

\* C15: when the rate limiter rejects the request of a generate_key call,
\* the call raises RateLimitExceeded, the session tables, the protocol
\* object and the stored keys and sessions are as before, and the live
\* rate-limit windows of the request's user and address hold what they held.
C15_RateLimitedNoSideEffects ==
    [][\A r \in Requests, sid \in SessionIdArgs, e \in MgRates :
          (/\ Len(rl_log') = Len(rl_log) + 1
           /\ LastRejected(rl_log')
           /\ mg_generate_key(r.alice, r.bob, r.key_length, r.ip, sid, e, MgCorrected))
          => /\ mg_ret'.exc = "RateLimitExceeded"
             /\ UNCHANGED <<active_sessions, user_sessions, sm_next_id, sm_ret,
                            current_backend, qber_threshold, security_boost_mode,
                            success_history, error_rate_history, bb_tightened,
                            bb_ret, generated_keys, qkd_sessions>>
             /\ InWindow(Get(user_requests', r.alice, <<>>), now, WinHour)
                   = InWindow(Get(user_requests, r.alice, <<>>), now, WinHour)
             /\ InWindow(Get(ip_requests', r.ip, <<>>), now, WinMinute)
                   = InWindow(Get(ip_requests, r.ip, <<>>), now, WinMinute)
             /\ InWindow(global_requests', now, WinSecond)
                   = InWindow(global_requests, now, WinSecond)]_vars

\* a generate_key call has just been turned away by the rate limiter, after
\* earlier calls of the same user opened sessions and ran the protocol
C15_Witness ==
    /\ mg_ret = MgRet("generate_key", "RateLimitExceeded", FALSE, None)
    /\ LastRejected(rl_log)
    /\ rl_log[Len(rl_log)].t = now
    /\ active_sessions # <<>>
    /\ error_rate_history # <<>>
    /\ Len(security_events) >= 2
    /\ security_events[Len(security_events) - 1].type = "rate_limit_exceeded"
    /\ security_events[Len(security_events)].type = "generation_failed"
    /\ performance_metrics.security_blocks = 1

(***************************************************************************)
(* Claims about the pure functions (checked under SpecFN)                  *)
(***************************************************************************)

C17_ExactlyTargetLength ==
    fn_ret.op \in {"privacy_amplification", "enhanced_privacy_amplification",
                   "hash_truncation"}
    => /\ fn_ret.ret.exc = "none"
       /\ Len(fn_ret.ret.out) = fn_in.target_length

\* the positions (from 0) where the two basis lists agree
Matching(alice_bases, bob_bases) ==
    {i \in 0..(Len(alice_bases) - 1) : alice_bases[i + 1] = bob_bases[i + 1]}

\* the list indices names exactly the set m, in increasing order
ListsInOrder(indices, m) ==
    /\ {indices[j] : j \in 1..Len(indices)} = m
    /\ Len(indices) = Cardinality(m)
    /\ \A j \in 1..(Len(indices) - 1) : indices[j] < indices[j + 1]

\* sifted is the list bits read at the positions indices
ReadAt(sifted, bits, indices) ==
    /\ Len(sifted) = Len(indices)
    /\ \A j \in 1..Len(sifted) : sifted[j] = bits[indices[j] + 1]

\* C18: for equal-length inputs the sifted key has as many bits as there
\* are positions with matching bases, at most the raw bit count; the
\* returned indices are exactly those positions in increasing order, and
\* sifted[j] is the bit measured at position indices[j].
C18_SiftedIsMatchingBases ==
    /\ fn_ret.op = "sift_key"
       => LET m == Matching(fn_in.alice_bases, fn_in.bob_bases)
          IN  /\ Len(fn_ret.ret.sifted_key) = Cardinality(m)
              /\ Len(fn_ret.ret.sifted_key) <= Len(fn_in.bob_measurements)
              /\ ListsInOrder(fn_ret.ret.matching_indices, m)
              /\ ReadAt(fn_ret.ret.sifted_key, fn_in.bob_measurements,
                        fn_ret.ret.matching_indices)
    /\ fn_ret.op = "sift_quantum_key"
       => LET m == Matching(fn_in.alice_bases, fn_in.bob_bases)
          IN  /\ Len(fn_ret.ret.bob_sifted) = Cardinality(m)
              /\ Len(fn_ret.ret.bob_sifted) <= Len(fn_in.bob_bits)
              /\ ListsInOrder(fn_ret.ret.matching_indices, m)
              /\ ReadAt(fn_ret.ret.bob_sifted, fn_in.bob_bits,
                        fn_ret.ret.matching_indices)
              /\ ReadAt(fn_ret.ret.alice_sifted, fn_in.alice_bits,
                        fn_ret.ret.matching_indices)

\* sift_key has kept the first and the last of three measured bits and
\* dropped the middle one, whose bases differ
C18_Witness ==
    /\ fn_ret.op = "sift_key"
    /\ Len(fn_in.alice_bases) = 3
    /\ fn_ret.ret.matching_indices = <<0, 2>>
    /\ fn_ret.ret.sifted_key = <<fn_in.bob_measurements[1], fn_in.bob_measurements[3]>>
    /\ fn_in.bob_measurements[1] # fn_in.bob_measurements[2]

\* C19: the error rate estimate_error_rate and _calculate_adaptive_qber
\* report lies in [0, 1], and is exactly 1 when no sifted bit is left.
C19_ErrorRateInUnitInterval ==
    /\ fn_ret.op = "estimate_error_rate"
       => /\ 0 <= fn_ret.ret
          /\ fn_ret.ret <= Scale
          /\ (fn_in.alice_bits = <<>> /\ fn_in.bob_bits = <<>>) => fn_ret.ret = Scale
    /\ fn_ret.op = "calculate_adaptive_qber"
       => /\ 0 <= fn_ret.ret
          /\ fn_ret.ret <= Scale
          /\ Matching(fn_in.alice_bases, fn_in.bob_bases) = {} => fn_ret.ret = Scale

\* _calculate_adaptive_qber has reported 1 for measured bits none of which
\* has matching bases
C19_Witness ==
    /\ fn_ret.op = "calculate_adaptive_qber"
    /\ Len(fn_in.alice_bits) = MaxBits - 1
    /\ Matching(fn_in.alice_bases, fn_in.bob_bases) = {}
    /\ fn_in.alice_bits = fn_in.bob_bits
    /\ fn_ret.ret = Scale

(***************************************************************************)
(* Claim about concurrent check_rate_limit calls (checked under SpecCC)    *)
(***************************************************************************)

\* C20: however the statements of concurrent check_rate_limit calls for one
\* user and address interleave, the accepted requests respect every cap:
\* per user and minute, per user and hour, per address and minute, and
\* globally per second.
C20_CapsUnderInterleaving ==
    \A a \in 0..MaxTimeCC :
        /\ AcceptedIn(LAMBDA e : e.user = CcUser, a, WinMinute) <= user_limit_per_minute
        /\ AcceptedIn(LAMBDA e : e.user = CcUser, a, WinHour) <= user_limit_per_hour
        /\ AcceptedIn(LAMBDA e : e.ip = CcIp, a, WinMinute) <= ip_limit_per_minute
        /\ AcceptedIn(LAMBDA e : TRUE, a, WinSecond) <= global_limit_per_second


(***************************************************************************)
(* Claims about concurrent use of HighPerformanceKeyCache (under SpecKQ)   *)
(***************************************************************************)
\* C21: under any interleaving of get_cached_key and cache_key calls on one
\* queue, no key is returned to two callers, every key whose cache_key call
\* returned is either still in the queue, held by a get_cached_key call
\* about to return it, or was returned, and no call ends in a KeyError or
\* an IndexError.
C21_AtomicPopPush ==
    LET stored == IF KqQueue \in DOMAIN key_cache
                  THEN {key_cache[KqQueue][i].id : i \in 1..Len(key_cache[KqQueue])}
                  ELSE {}
        held == {kq_pc[t].key.id : t \in {x \in Threads :
                                           kq_pc[x].pc \in {"get_empty", "get_del"}}}
        returned == {kc_dispensed[i] : i \in 1..Len(kc_dispensed)}
    IN  /\ \A i, j \in 1..Len(kc_dispensed) : kc_dispensed[i] = kc_dispensed[j] => i = j
        /\ kq_put \subseteq stored \cup held \cup returned
        /\ \A t \in Threads : kq_pc[t].pc \notin {"KeyError", "IndexError"}

C24_EncryptionRoundTrip ==
    enc_ret.op = "encrypt_message"
        => /\ enc_ret.exc = "none"
           /\ enc_ret.result.key_id \in DOMAIN generated_keys
                 => LET r == decrypt_message(enc_ret.result, enc_ret.result.key_id)
                    IN  r.exc = "none" /\ r.plaintext = enc_ret.message

(***************************************************************************)
(* Further claims about BB84Protocol                                       *)
(***************************************************************************)
\* C26 (under SpecEH): after any sequence of attempts through either
\* generation path, error_rate_history holds at most the HistoryCap = 100
\* most recent observations.
C26_ErrorHistoryBounded == Len(error_rate_history) <= HistoryCap

\* the backend after b in the fixed order qiskit, cirq, pennylane, qiskit
Succ(b) == IF b = "qiskit" THEN "cirq" ELSE IF b = "cirq" THEN "pennylane" ELSE "qiskit"

\* C27 (under SpecBB): in a generate_key call, every attempt after a failed
\* one runs on the next available backend after the previous attempt's in
\* the order qiskit, cirq, pennylane, wrapping around: never on an
\* unavailable backend, and on a backend already tried in this call only
\* when no untried available backend remains; the emergency path runs only
\* after three attempts.
C27_FailoverInPriorityOrder ==
    bb_ret.op = "generate_key" =>
        LET tried == bb_ret.backends
        IN  /\ \A i \in 2..Len(tried) :
                  LET prev == tried[i - 1]
                      cur == tried[i]
                      before == {tried[j] : j \in 1..(i - 1)}
                  IN  /\ Available(cur)
                      /\ \/ cur = Succ(prev)
                         \/ ~Available(Succ(prev)) /\ cur = Succ(Succ(prev))
                         \/ /\ ~Available(Succ(prev))
                            /\ ~Available(Succ(Succ(prev)))
                            /\ cur = prev
                      /\ cur \in before =>
                            ~\E b \in {"qiskit", "cirq", "pennylane"} :
                                  Available(b) /\ b \notin before
            /\ bb_ret.emergency > 0 => Len(tried) = 3

\* a call whose second attempt skipped the uninstalled cirq and whose third
\* wrapped around to qiskit
C27_Witness ==
    /\ bb_ret.op = "generate_key"
    /\ ~CIRQ_AVAILABLE
    /\ bb_ret.backends = <<"qiskit", "pennylane", "qiskit">>
    /\ bb_ret.emergency = 1

\* C28 (under SpecBB): a generate_key call makes at most three generation
\* attempts; it ends with the key of one of them, or after the third
\* failure by entering the emergency path exactly once, and never before.
C28_AtMostThreeAttempts ==
    bb_ret.op = "generate_key" =>
        /\ Len(bb_ret.backends) \in 1..3
        /\ Len(bb_ret.thresholds) = Len(bb_ret.backends)
        /\ \/ bb_ret.emergency = 0 /\ bb_ret.key
           \/ bb_ret.emergency = 1 /\ Len(bb_ret.backends) = 3

\* a call that failed three times, on three different backends, and then
\* entered the emergency path
C28_Witness ==
    /\ bb_ret.op = "generate_key"
    /\ bb_ret.backends = <<"qiskit", "cirq", "pennylane">>
    /\ Len(bb_ret.thresholds) = 3
    /\ bb_ret.emergency = 1
    /\ ~bb_ret.key

(***************************************************************************)
(* HighPerformanceKeyCache driven over its capacity: cache_key on new      *)
(* queues until _emergency_cleanup deletes some, get_cached_key in between *)
(***************************************************************************)

EvQueues == 1..NumQueuesEV

\* a call names a queue the cache holds or the first one it does not hold
EvNames(q) ==
    \/ q \in DOMAIN key_cache
    \/ \A x \in EvQueues : x < q => x \in DOMAIN key_cache

\* the position in the history of the last get_cached_key that returned a
\* key of queue q; 0 when there was none, as access_times.get(k, 0) has it
LastAccess(q) ==
    LET hits == {i \in 1..Len(ev_access) : ev_access[i] = q}
    IN  IF hits = {} THEN 0 ELSE CHOOSE i \in hits : \A j \in hits : j <= i

\* cache_key, recording the queues its _emergency_cleanup deleted
EvCacheKey ==
    /\ kc_next_key <= MaxKeysEV
    /\ \E q \in EvQueues :
          /\ EvNames(q)
          /\ cache_key(q, [id |-> kc_next_key, put_at |-> now])
          /\ LET kc1 == Put(key_cache, q, PushBack(Get(key_cache, q, <<>>), NoKey))
                 ord1 == IF q \in DOMAIN key_cache THEN kc_order ELSE Append(kc_order, q)
             IN  ev_evicted' = IF OverCapacity(kc1)
                                  THEN EmergencyCleanup(kc1, ord1, creation_times,
                                                        access_times).gone
                                  ELSE {}
    /\ UNCHANGED <<rlVars, smVars, bbVars, mgVars, fnVars, ccVars, kqVars, idVars,
                   encVars, gfVars, ev_access>>

\* get_cached_key, recording the queue when a key is returned
EvGetCachedKey ==
    /\ Len(ev_access) < MaxGetsEV
    /\ \E q \in EvQueues :
          /\ q \in DOMAIN key_cache
          /\ get_cached_key(q)
          /\ ev_access' = IF kc_ret'.key # NoKey THEN Append(ev_access, q) ELSE ev_access
    /\ ev_evicted' = {}
    /\ UNCHANGED <<rlVars, smVars, bbVars, mgVars, fnVars, ccVars, kqVars, idVars,
                   encVars, gfVars>>

NextEV == EvCacheKey \/ EvGetCachedKey

SpecEV == Configured(TRUE, TRUE, TRUE, TRUE) /\ [][NextEV]_vars

\* C29 (under SpecEV): when cache_key's emergency cleanup deletes queues,
\* every deleted queue was last accessed by get_cached_key no later than
\* every queue the cleanup keeps.
C29_EvictsLeastRecentlyAccessed ==
    \A g \in ev_evicted :
        \A k \in (DOMAIN key_cache) \ ev_evicted :
            LastAccess(g) <= LastAccess(k)

(***************************************************************************)
(* SecuritySessionManager with room for an older and a newer session of    *)
(* one user under the cap                                                  *)
(***************************************************************************)

\* len(self.user_sessions[alice_id]) >= self.max_sessions_per_user
SessionsAtCapSC(lst) == Len(lst) >= CapSC

create_session_sc(alice, bob) ==
    LET r == create_session_with(alice, bob,
                                 /\ alice \in DOMAIN CleanedSessions.us
                                 /\ SessionsAtCapSC(CleanedSessions.us[alice]))
    IN
    /\ active_sessions' = r.as
    /\ user_sessions' = r.us
    /\ sm_next_id' = sm_next_id + 1
    /\ sm_ret' = Ret("create", TRUE, "none")
    /\ now' = now

ScCreateSession ==
    /\ sm_next_id <= MaxSessionIdsSC
    /\ \E a \in Creators, b \in Peers : create_session_sc(a, b)
    /\ UNCHANGED <<rlVars, kcVars, bbVars, mgVars, fnVars, ccVars, xtVars>>

NextSC == ScCreateSession \/ ValidateSession \/ TickSM

SpecSC == Init /\ [][NextSC]_vars

\* the stored sessions that have not timed out
LiveSessions == {x \in DOMAIN active_sessions : ~Expired(active_sessions[x], now)}

\* C30 (under SpecSC): create_session by a user who has as many live
\* sessions as the cap allows removes exactly one live session, the earliest
\* created of that user's, and leaves every other live session, the user's
\* and the other users', as it was; the session lists of the other users
\* keep their live sessions in their order.
C30_EvictsOnlyCallersOldest ==
    [][\A a \in Creators, b \in Peers :
          LET mine == CreatedBy(active_sessions, a) \cap LiveSessions
              oldest == CHOOSE x \in mine : \A y \in mine : x <= y
          IN  ( /\ sm_next_id <= MaxSessionIdsSC
                /\ Cardinality(mine) >= CapSC
                /\ create_session_sc(a, b) )
              => /\ LiveSessions \ DOMAIN active_sessions' = {oldest}
                 /\ \A x \in LiveSessions \ {oldest} :
                       active_sessions'[x] = active_sessions[x]
                 /\ DOMAIN active_sessions' = (LiveSessions \ {oldest}) \cup {sm_next_id}
                 /\ \A u \in (DOMAIN user_sessions) \ {a} :
                       user_sessions'[u] =
                           SelectSeq(user_sessions[u], LAMBDA x : x \in LiveSessions)
                 /\ user_sessions'[a] =
                       Append(SelectSeq(user_sessions[a],
                                        LAMBDA x : x \in LiveSessions /\ x # oldest),
                              sm_next_id)]_vars

\* u1 created sessions 1 and 2, u2 session 3, and u1 then session 4 at the
\* cap, all at time 0: session 1 is gone, sessions 2 and 3 are as they were
C30_Witness ==
    /\ now = 0
    /\ sm_ret.op = "create"
    /\ sm_next_id = 5
    /\ DOMAIN active_sessions = {2, 3, 4}
    /\ user_sessions["u1"] = <<2, 4>>
    /\ user_sessions["u2"] = <<3>>

\* C31 (under SpecSM): a validate_session call that fails on ownership
\* mismatch leaves last_activity, key_count and total_data of the session
\* as they were and only appends the security event; and the last_activity
\* of a stored session changes only in a validate_session call that
\* returns true or in a record_key_generation call.
C31_IdleTimerResetOnlyBySuccess ==
    [][/\ \A sid \in SessionIds, u \in AllUsers :
             ( /\ sm_ret'.op = "validate"
               /\ sid \in DOMAIN active_sessions
               /\ ~Expired(active_sessions[sid], now)
               /\ ~IsOwner(active_sessions[sid], u)
               /\ validate_session(sid, u) )
             => /\ ~sm_ret'.result
                /\ sid \in DOMAIN active_sessions'
                /\ active_sessions'[sid].last_activity = active_sessions[sid].last_activity
                /\ active_sessions'[sid].key_count = active_sessions[sid].key_count
                /\ active_sessions'[sid].total_data = active_sessions[sid].total_data
                /\ Len(active_sessions'[sid].security_events) =
                       Len(active_sessions[sid].security_events) + 1
                /\ \A x \in (DOMAIN active_sessions) \ {sid} :
                       x \in DOMAIN active_sessions'
                       /\ active_sessions'[x] = active_sessions[x]
       /\ \A x \in (DOMAIN active_sessions) \cap (DOMAIN active_sessions') :
             active_sessions'[x].last_activity # active_sessions[x].last_activity
             => \/ sm_ret'.op = "validate" /\ sm_ret'.result
                \/ sm_ret'.op = "record"]_vars

\* an unauthorized validation was logged on a session that has been idle
\* since an earlier time: the call did not reset its timer
C31_Witness ==
    /\ sm_ret = Ret("validate", FALSE, "none")
    /\ \E sid \in DOMAIN active_sessions :
          /\ Len(active_sessions[sid].security_events) >= 1
          /\ active_sessions[sid].last_activity < now
          /\ ~Expired(active_sessions[sid], now)

\* the number of tested indices at which the two bit lists differ
Mismatches(alice_bits, bob_bits, test_indices) ==
    Cardinality({k \in 1..Len(test_indices) :
                    alice_bits[test_indices[k] + 1] # bob_bits[test_indices[k] + 1]})

\* C32 (under SpecFN): for two non-empty bit lists of equal length,
\* estimate_error_rate returns mismatches / sample_size for the indices it
\* sampled: the returned rate is the ratio of some sample it can draw.
C32_ErrorRateIsMismatchRatio ==
    ( /\ fn_ret.op = "estimate_error_rate"
      /\ Len(fn_in.alice_bits) = Len(fn_in.bob_bits)
      /\ Len(fn_in.alice_bits) > 0 )
    => \E idx \in TestIndices(Len(fn_in.alice_bits)) :
          fn_ret.ret = Rate(Mismatches(fn_in.alice_bits, fn_in.bob_bits, idx), Len(idx))

\* C33 (under SpecFN): in SARG04 a pulse whose measurement raised gets
\* confidence 0 and never enters the sifted key.
C33_RaisedPulseNotSifted ==
    fn_ret.op = "sarg04" =>
        \A i \in 1..Len(fn_in.outcomes) :
            fn_in.outcomes[i].raised =>
                /\ fn_ret.ret.bob_measurements[i][2] = 0
                /\ \A k \in 1..Len(fn_ret.ret.matching_indices) :
                       fn_ret.ret.matching_indices[k] # i - 1

\* the thresholds of EnhancedBB84Protocol for the call's simulation_mode
DecoySecurityThreshold == IF fn_in.sim THEN DecoySimSecurity ELSE DecoyRealSecurity
DecoyQberThreshold == IF fn_in.sim THEN DecoySimQber ELSE DecoyRealQber

\* C34 (under SpecFN): a BB84+Decoy generate_key call whose decoy analysis
\* yields security_parameter below security_threshold raises
\* EavesdropDetected and returns no key, also when error_rate is at or below
\* qber_threshold; and the sifted key holds exactly the measurements of the
\* signal-tagged pulses whose bases match.
C34_LowSecurityParameterFails ==
    fn_ret.op = "decoy" =>
        /\ fn_ret.ret.security_parameter < DecoySecurityThreshold
           => fn_ret.ret.exc = "EavesdropDetected" /\ ~fn_ret.ret.key
        /\ \A k \in 1..Len(fn_ret.ret.matching_indices) :
              LET i == fn_ret.ret.matching_indices[k] + 1
              IN  /\ fn_in.types[i] = "signal"
                  /\ fn_in.alice_bases[i] = fn_in.bob_bases[i]
                  /\ fn_ret.ret.sifted_key[k] = fn_in.measurements[i]
        /\ Len(fn_ret.ret.sifted_key) = Len(fn_ret.ret.matching_indices)

\* a call with an error-free sifted key and a security_parameter below the
\* threshold that raised EavesdropDetected
C34_Witness ==
    /\ fn_ret.op = "decoy"
    /\ fn_ret.ret.sifted_key # <<>>
    /\ fn_ret.ret.error_rate = 0
    /\ fn_ret.ret.error_rate <= DecoyQberThreshold
    /\ fn_ret.ret.security_parameter < DecoySecurityThreshold
    /\ fn_ret.ret.exc = "EavesdropDetected"

\* C35 (under SpecFN): an E91 generate_key call raises EavesdropDetected and
\* returns no key exactly when the CHSH statistic S is below bell_threshold,
\* whatever the error rate of the sifted pairs.
C35_BellTestAloneDecides ==
    fn_ret.op = "e91" =>
        /\ fn_ret.ret.chsh_value < fn_ret.ret.bell_threshold
           => fn_ret.ret.exc = "EavesdropDetected" /\ ~fn_ret.ret.key
        /\ fn_ret.ret.chsh_value >= fn_ret.ret.bell_threshold
           => fn_ret.ret.exc # "EavesdropDetected"

\* a call whose sifted pairs agree (error rate 0) and whose S is below the
\* threshold raised EavesdropDetected
C35_Witness ==
    /\ fn_ret.op = "e91"
    /\ fn_ret.ret.sifted > 0
    /\ fn_ret.ret.error_rate = 0
    /\ fn_ret.ret.chsh_value < fn_ret.ret.bell_threshold
    /\ fn_ret.ret.exc = "EavesdropDetected"

(***************************************************************************)
(* Claims about the threat level (checked under SpecTL)                    *)
(***************************************************************************)

MaxCallsGF == 3

\* what one run of _generate_key_ultra_fast can measure: too few sifted
\* bits, an accepted error rate, a rejected one followed by an accepted or
\* by a rejected enhanced measurement
GfMeasurements ==
    {[sifted1 |-> FALSE, e1 |-> LowError, sifted2 |-> TRUE, e2 |-> LowError],
     [sifted1 |-> TRUE, e1 |-> LowError, sifted2 |-> TRUE, e2 |-> LowError],
     [sifted1 |-> TRUE, e1 |-> HighError, sifted2 |-> TRUE, e2 |-> LowError],
     [sifted1 |-> TRUE, e1 |-> HighError, sifted2 |-> TRUE, e2 |-> HighError]}

\* _generate_with_minimal_overhead: how the fast generation function of
\* the cached backend ends; on an exception the handler falls back to
\* _generate_key_ultra_fast
minimal_overhead_exc == fast_generation(BestBackend(QISKIT_AVAILABLE, CIRQ_AVAILABLE), now).exc

\* _schedule_background_generation: one _generate_key_ultra_fast and one
\* cache_key per measurement of ms, given up at the first exception
RECURSIVE schedule_background_generation(_, _, _)
schedule_background_generation(st, q, ms) ==
    IF ms = <<>> THEN st
    ELSE LET m == Head(ms)
             r == ultra_fast_outcome(st.eh, m.sifted1, m.e1, m.sifted2, m.e2)
             c == cache_put(st.kc, st.ord, st.ct, st.at, q,
                            [id |-> st.next, put_at |-> now])
             st1 == [kc |-> c.kc, ord |-> c.ord, ct |-> c.ct, at |-> c.at,
                     eh |-> r.eh, next |-> st.next + 1]
         IN  IF r.exc # "none" THEN [st EXCEPT !.eh = r.eh]
             ELSE IF c.exc # "none" THEN st1
             ELSE schedule_background_generation(st1, q, Tail(ms))

\* get_key_fast(alice_id, bob_id, key_length) with enable_caching, for the
\* queue q of these arguments; m is what the generation measures and ms
\* what the background generations measure
get_key_fast(q, m, ms) ==
    LET has == q \in DOMAIN key_cache /\ key_cache[q] # <<>>
        hit == has /\ (fast_lookup_mode \/ Fresh(creation_times, q, now))
        r == ultra_fast_outcome(error_rate_history, m.sifted1, m.e1, m.sifted2, m.e2)
        key == [id |-> kc_next_key, put_at |-> now]
        c == cache_put(key_cache, kc_order, creation_times, access_times, q,
                       key)
        st == schedule_background_generation(
                  [kc |-> c.kc, ord |-> c.ord, ct |-> c.ct, at |-> c.at,
                   eh |-> r.eh, next |-> kc_next_key + 1], q, ms)
        Log(exc, id, path) ==
            Append(gf_log, [q |-> q, exc |-> exc, id |-> id, path |-> path])
    IN
    /\ Len(gf_log) < MaxCallsGF
    /\ now - kc_last_cleanup <= kc_cleanup_interval
    /\ UNCHANGED <<simulation_mode, QISKIT_AVAILABLE, CIRQ_AVAILABLE, current_backend,
                   qber_threshold, security_boost_mode, success_history,
                   threat_level, bb_tightened, bb_ret>>
    /\ IF hit THEN
            /\ get_cached_key(q)
            /\ gf_log' = Log("none", Head(key_cache[q]).id, "cache")
            /\ UNCHANGED error_rate_history
       ELSE
            /\ now' = now
            /\ UNCHANGED <<fast_lookup_mode, kc_last_cleanup, kc_dispensed>>
            /\ kc_ret' = KcRet("get", NoKey, "miss", "none")
            /\ IF simulation_mode THEN
                    /\ error_rate_history' = r.eh
                    /\ kc_next_key' = IF r.exc = "none" THEN kc_next_key + 1
                                                        ELSE kc_next_key
                    /\ gf_log' = Log(r.exc, IF r.exc = "none" THEN key.id ELSE 0,
                                     "ultra_fast")
                    /\ UNCHANGED <<key_cache, kc_order, creation_times, access_times>>
               ELSE IF minimal_overhead_exc = "none" \/ r.exc # "none" THEN
                    /\ error_rate_history' = r.eh
                    /\ gf_log' = Log(emergency_key_generation(now).exc, 0, "emergency")
                    /\ UNCHANGED <<key_cache, kc_order, creation_times, access_times,
                                   kc_next_key>>
               ELSE IF c.exc # "none" THEN
                    /\ error_rate_history' = r.eh
                    /\ key_cache' = c.kc
                    /\ kc_order' = c.ord
                    /\ creation_times' = c.ct
                    /\ access_times' = c.at
                    /\ kc_next_key' = kc_next_key + 1
                    /\ gf_log' = Log(emergency_key_generation(now).exc, 0, "emergency")
               ELSE
                    /\ error_rate_history' = st.eh
                    /\ key_cache' = st.kc
                    /\ kc_order' = st.ord
                    /\ creation_times' = st.ct
                    /\ access_times' = st.at
                    /\ kc_next_key' = st.next
                    /\ gf_log' = Log("none", key.id, "minimal_overhead")

GetKeyFast ==
    /\ \E q \in CacheKeys, m \in GfMeasurements, ms \in [1..2 -> GfMeasurements] :
          get_key_fast(q, m, ms)
    /\ UNCHANGED <<rlVars, smVars, mgVars, fnVars, ccVars, kqVars, idVars, encVars,
                   evVars>>

NextGF == GetKeyFast

\* BB84Protocol(simulation_mode=sim) with the default enable_caching=True
InitFast == \E sim \in BOOLEAN : Configured(TRUE, sim, TRUE, TRUE)

SpecGF == InitFast /\ [][NextGF]_vars

\* C37 (under SpecGF): no two get_key_fast calls return the same key: a key
\* returned to one call is not left in the cache for a later call.
C37_NoKeyReturnedTwice ==
    \A i, j \in DOMAIN gf_log :
        (i < j /\ gf_log[i].exc = "none" /\ gf_log[j].exc = "none")
            => gf_log[i].id # gf_log[j].id

(***************************************************************************)
(* Claims about the two session indexes (checked under SpecSM)             *)
(***************************************************************************)

\* the positions of session sid in the list of user u
Positions(u, sid) ==
    {i \in 1..Len(Get(user_sessions, u, <<>>)) : user_sessions[u][i] = sid}

\* C38: a session id is in user_sessions[u] if and only if it is in
\* active_sessions with alice_id = u, and it is there at most once.
C38_SessionIndexesConsistent ==
    \A u \in Users \cup DOMAIN user_sessions :
        \A sid \in 1..sm_next_id :
            /\ Positions(u, sid) # {}
               <=> (sid \in DOMAIN active_sessions /\ active_sessions[sid].alice_id = u)
            /\ Cardinality(Positions(u, sid)) <= 1

\* a session was removed (by expiry or by the per-user cap) while another
\* session stays in both indexes
C38_Witness ==
    /\ \E sid \in 1..(sm_next_id - 1) : sid \notin DOMAIN active_sessions
    /\ \E sid \in DOMAIN active_sessions :
          \E u \in DOMAIN user_sessions : Positions(u, sid) # {}

(***************************************************************************)
(* Claims about the request counters of QKDManager (checked under SpecMG)  *)
(***************************************************************************)

\* C39: every generate_key call increments exactly one of total_requests
\* (when it returns a key) and blocked_requests (when it raises), by one,
\* so that their sum grows by one with every call.
C39_EveryCallCountedOnce ==
    [][\A r \in Requests, sid \in SessionIdArgs, e \in MgRates :
          mg_generate_key(r.alice, r.bob, r.key_length, r.ip, sid, e, MgCorrected)
          => /\ performance_metrics'.total_requests + performance_metrics'.blocked_requests
                   = performance_metrics.total_requests
                         + performance_metrics.blocked_requests + 1
             /\ performance_metrics'.total_requests
                   = performance_metrics.total_requests
                         + (IF mg_ret'.exc = "none" THEN 1 ELSE 0)]_vars

(***************************************************************************)
(* Claims about cache_key at capacity (checked under SpecKC)               *)
(***************************************************************************)

\* C40: cache_key completes without raising, also when the put takes the
\* cache over capacity, and leaves at most 1.2 x max_cache_size queues.
C40_CacheKeyNeverRaises ==
    kc_ret.op = "put" => (kc_ret.exc = "none" /\ ~OverCapacity(key_cache))

=========================================================================
